---- MODULE Spec2Model ----
(***************************************************************************)
(* A model of GE-Man: the managed-version registry and the commands that   *)
(* drive it (src/src), the host-config patch engine, the checksum check    *)
(* and the paginated Wine tag scan (src/gehelper-lib).                     *)
(*                                                                         *)
(* Text is modelled as a sequence of one-character strings, so that        *)
(* contains / split / join / compare are computed as the code computes     *)
(* them.  An Option<T> is a sequence of length 0 (None) or 1 (Some).       *)
(***************************************************************************)
EXTENDS Integers, Sequences, FiniteSets, TLC

VARIABLES
    \* ---- registry and commands (src/src) ----
    persisted,   \* managed_versions.json on disk: [ok, versions]
    toolDir,     \* directories present in the Steam / Lutris tool directories
    unpacked,    \* top-level directories the running command unpacked in the state directory
    active,      \* per application: the active directory name of its config (Option)
    pc,          \* position of main(): "idle", "save", "apply", "done"
    cmd,         \* the running command: its arguments and what the environment will answer
    mem,         \* the in-memory ManagedVersions of the running command
    res,         \* result of the last command handler: "none", "ok", "err", "panic"
    before,      \* the persisted registry when the running command started
    removed,     \* removed_versions returned by the last remove / clean handler
    added,       \* new_versions returned by the last add / migrate handler
    ncmd,        \* number of commands run so far
    \* ---- host config patch (src/src/filesystem.rs, gehelper-lib/src/config.rs) ----
    ckind,       \* the tool kind whose host config the model follows
    cfgFile,     \* the config file's bytes (Option)
    bakFile,     \* the backup file's bytes (Option)
    cpc,         \* position of apply_to_app_config: "idle", "backed", "done"
    ccmd,        \* the directory name the running apply sets
    cpre,        \* the config file's bytes when the running apply started (Option)
    cgood,       \* every complete, valid content the config file has held
    cres,        \* result of the running apply: "none", "ok", "err", "panic"
    napply,      \* number of applies run so far
    \* ---- paginated tag scan (gehelper-lib/src/download/mod.rs) ----
    listing,     \* the remote tag listing the scan runs against
    wkind,       \* the Wine sub-variant looked up
    page,        \* the scan's page counter (u8)
    spc,         \* position of the scan: "idle", "loop", "done", "panic"
    sres,        \* the scan's result: [kind, tag]
    \* ---- tag construction and comparison (gehelper-lib/src/tag.rs) ----
    tagRaw,      \* the raw tag text a Tag is constructed from
    tagObj,      \* the constructed Tag: [value, semver]
    tagOther,    \* the Tag it is compared with
    tord,        \* the Ordering the comparison returned: -1, 0, 1
    tpc,         \* position: "idle", "new", "panic", "cmp"
    \* ---- checksum verification (gehelper-lib/src/archive.rs) ----
    sumTar,      \* the compressed archive's bytes
    sumText,     \* the checksum text
    sumRes,      \* "none", or what checksums_match returned: "match", "mismatch", "panic"
    \* ---- release download (gehelper-lib/src/download) ----
    request,     \* the DownloadRequest: [skip_checksum]
    net,         \* what the remote answers: [release, checksum, tar]
    dpc,         \* position of download_release: "idle", "done"
    dres,        \* its result: [status, tar, checksum]
    \* ---- a config copy in memory (gehelper-lib/src/config.rs) ----
    hostKind,    \* the tool kind whose config is read
    hostFile,    \* the config file's bytes (Option)
    hostRead,    \* what create_copy returned
    hostCopy,    \* the copy after the sets applied to it
    hostLast,    \* the directory name set last (Option)
    hpc,         \* position: "idle", "read", "failed", "panic"
    nsets,       \* number of sets applied to the copy
    \* ---- the registry file as a document (src/src/data.rs) ----
    storeIn,     \* the ManagedVersions collection that is written
    storeFile,   \* managed_versions.json: its text (Option)
    storeOut,    \* what from_file returned: [ok, versions]
    stpc,        \* position: "idle", "written", "read"
    \* ---- the collection under add and remove (src/src/data.rs) ----
    held,        \* the versions of the ManagedVersions collection
    inserted,    \* the versions it holds, in the order in which they were added
    nops,        \* number of operations applied so far
    \* ---- concurrent tag scans (gehelper-lib/src/download/mod.rs) ----
    pagListing,  \* the remote tag listing both calls run against
    pagKind,     \* per call: the Wine sub-variant looked up
    pagPage,     \* per call: the local variable `page`
    pagPc,       \* per call: "idle", "loop", "done", "panic"
    pagReqs      \* per call: the page numbers it has requested, in order

regVars == <<persisted, toolDir, unpacked, active, pc, cmd, mem, res, before, removed, added, ncmd>>
cfgVars == <<ckind, cfgFile, bakFile, cpc, ccmd, cpre, cgood, cres, napply>>
scanVars == <<listing, wkind, page, spc, sres>>
tagVars == <<tagRaw, tagObj, tagOther, tord, tpc>>
sumVars == <<sumTar, sumText, sumRes>>
dlVars == <<request, net, dpc, dres>>
copyVars == <<hostKind, hostFile, hostRead, hostCopy, hostLast, hpc, nsets>>
storeVars == <<storeIn, storeFile, storeOut, stpc>>
collVars == <<held, inserted, nops>>
pagVars == <<pagListing, pagKind, pagPage, pagPc, pagReqs>>
extVars == <<copyVars, storeVars, collVars, pagVars>>
libVars == <<tagVars, sumVars, dlVars, extVars>>
vars == <<regVars, cfgVars, scanVars, libVars>>

----------------------------------------------------------------------------
(* Text helpers.                                                           *)

None == <<>>
Some(x) == <<x>>

Range(s) == {s[i] : i \in 1..Len(s)}

\* The characters the model uses, in ASCII order.
AsciiOrder ==
    <<"\n", " ", "\"", "-", ".", "0", "1", "2", "3", "4", "5", "6", "7", "8", "9",
      ":", "E", "F", "G", "L", "M", "P", "W", "_", "a", "b", "c", "d", "e", "f",
      "i", "n", "o", "r", "s", "v", "w", "x", "{", "}">>

Code(c) == CHOOSE i \in 1..Len(AsciiOrder) : AsciiOrder[i] = c

IsDigit(c) == c \in {"0", "1", "2", "3", "4", "5", "6", "7", "8", "9"}

\* str::contains / str::find: the first index at which sub occurs in s, 0 if none.
StartsAt(s, sub, i) ==
    /\ i + Len(sub) - 1 <= Len(s)
    /\ \A k \in 1..Len(sub) : s[i + k - 1] = sub[k]

Find(s, sub) ==
    IF \E i \in 1..(Len(s) + 1) : StartsAt(s, sub, i)
    THEN CHOOSE i \in 1..(Len(s) + 1) :
            /\ StartsAt(s, sub, i)
            /\ \A j \in 1..(i - 1) : ~StartsAt(s, sub, j)
    ELSE 0

Contains(s, sub) == Find(s, sub) # 0

\* Ord for String: byte-wise lexicographic comparison; -1, 0 or 1.
StrCmp(a, b) ==
    LET n == IF Len(a) < Len(b) THEN Len(a) ELSE Len(b)
        diffs == {i \in 1..n : a[i] # b[i]}
    IN IF diffs = {}
       THEN (IF Len(a) < Len(b) THEN -1 ELSE IF Len(a) > Len(b) THEN 1 ELSE 0)
       ELSE LET d == CHOOSE i \in diffs : \A j \in diffs : i <= j
            IN IF Code(a[d]) < Code(b[d]) THEN -1 ELSE 1

\* usize -> decimal text (Display for usize).
DigitChar(d) == <<"0", "1", "2", "3", "4", "5", "6", "7", "8", "9">>[d + 1]

RECURSIVE ToDecimal(_)
ToDecimal(n) == IF n < 10 THEN <<DigitChar(n)>> ELSE ToDecimal(n \div 10) \o <<DigitChar(n % 10)>>

\* str::parse::<usize>: Some(n) for a non-empty run of digits, None otherwise.
DigitVal(c) == Code(c) - Code("0")

RECURSIVE DecimalValue(_)
DecimalValue(s) == IF s = <<>> THEN 0 ELSE 10 * DecimalValue(SubSeq(s, 1, Len(s) - 1)) + DigitVal(s[Len(s)])

ParseUsize(s) ==
    IF s # <<>> /\ \A i \in 1..Len(s) : IsDigit(s[i]) THEN Some(DecimalValue(s)) ELSE None

----------------------------------------------------------------------------
(* Tag / semver engine (gehelper-lib/src/tag.rs).                          *)

RELEASE_CANDIDATE_MARKER == <<"r", "c">>
TAG_MARKERS == << <<"r", "c">>, <<"L", "o", "L">>, <<"M", "F">> >>

\* End of the maximal digit run that starts at i.
RECURSIVE RunEnd(_, _)
RunEnd(s, i) == IF i < Len(s) /\ IsDigit(s[i + 1]) THEN RunEnd(s, i + 1) ELSE i

\* NUMBERS.captures_iter: every maximal digit run, left to right, as a Match
\* (start, end, text).
RECURSIVE CapturesFrom(_, _)
CapturesFrom(s, i) ==
    IF i > Len(s) THEN <<>>
    ELSE IF IsDigit(s[i])
         THEN LET e == RunEnd(s, i)
              IN <<[start |-> i, end |-> e, text |-> SubSeq(s, i, e)]>> \o CapturesFrom(s, e + 1)
         ELSE CapturesFrom(s, i + 1)

NUMBERS(s) == CapturesFrom(s, 1)

RECURSIVE JoinCaptures(_)
JoinCaptures(caps) ==
    IF caps = <<>> THEN <<>> ELSE Head(caps).text \o <<".">> \o JoinCaptures(Tail(caps))

RECURSIVE ZeroFill(_)
ZeroFill(n) == IF n <= 0 THEN <<>> ELSE <<"0", ".">> \o ZeroFill(n - 1)

construct_string(caps) ==
    LET filled == JoinCaptures(caps) \o ZeroFill(3 - Len(caps))
    IN SubSeq(filled, 1, Len(filled) - 1)

\* The first capture, after skipping one, whose text follows "rc" somewhere in the tag.
release_candidate_match(git_tag, caps) ==
    LET hits == {i \in 2..Len(caps) : Contains(git_tag, RELEASE_CANDIDATE_MARKER \o caps[i].text)}
    IN IF hits = {} THEN None
       ELSE Some(caps[CHOOSE i \in hits : \A j \in hits : i <= j])

\* The marker loop walking TAG_MARKERS from its last entry to its first.
RECURSIVE AppendMarkers_reversed(_, _, _)
AppendMarkers_reversed(git_tag, semver, k) ==
    IF k > Len(TAG_MARKERS) THEN semver
    ELSE LET marker == TAG_MARKERS[Len(TAG_MARKERS) + 1 - k]
         IN AppendMarkers_reversed(git_tag,
                                   IF Contains(git_tag, marker)
                                   THEN semver \o <<"-">> \o marker ELSE semver,
                                   k + 1)

\* The loop over TAG_MARKERS of from_git_tag's branch for tags without "rc".
RECURSIVE AppendMarkers(_, _, _)
AppendMarkers(git_tag, semver, k) ==
    IF k > Len(TAG_MARKERS) THEN semver
    ELSE AppendMarkers(git_tag,
                       IF Contains(git_tag, TAG_MARKERS[k])
                       THEN semver \o <<"-">> \o TAG_MARKERS[k] ELSE semver,
                       k + 1)

\* semver::from_git_tag: [panics, semver]; the code returns Some(semver) or panics.
from_git_tag(git_tag) ==
    LET captures == NUMBERS(git_tag)
    IN IF Contains(git_tag, RELEASE_CANDIDATE_MARKER)
       THEN LET rc == release_candidate_match(git_tag, captures)
            IN IF rc = None
               THEN [panics |-> TRUE, semver |-> None]
               ELSE LET NotRc(cap) == cap # rc[1]
                        without == SelectSeq(captures, NotRc)
                    IN [panics |-> FALSE,
                        semver |-> Some(construct_string(without) \o <<"-", "r", "c">> \o rc[1].text)]
       ELSE [panics |-> FALSE,
             semver |-> Some(AppendMarkers(git_tag, construct_string(captures), 1))]

\* Ord for Option<&String>: None orders before Some.
OptStrCmp(a, b) ==
    IF a = None /\ b = None THEN 0
    ELSE IF a = None THEN -1
    ELSE IF b = None THEN 1
    ELSE StrCmp(a[1], b[1])

\* The tags of the model: two Proton-style tags whose lexicographic and numeric
\* orders differ, and Wine tags of both sub-variants, one of them with an "rc"
\* that no digit-run follows.
TagA == <<"6", ".", "9">>
TagB == <<"6", ".", "1", "0">>
TagWine71 == <<"7", ".", "1", "-", "G", "E", "-", "1">>
TagWine72 == <<"7", ".", "2", "-", "G", "E", "-", "1">>
TagLol71 == <<"7", ".", "1", "-", "G", "E", "-", "1", "-", "L", "o", "L">>
TagLol70 == <<"7", ".", "0", "-", "G", "E", "-", "1", "-", "L", "o", "L">>
TagWineRc == <<"7", ".", "0", "-", "G", "E", "-", "r", "c">>
KnownTags == {TagA, TagB, TagWine71, TagWine72, TagLol71, TagLol70, TagWineRc}

\* Tag::new: the semver is derived once, when the tag is constructed.
Derived == [t \in KnownTags |-> from_git_tag(t)]
Tag_new(git_tag) == Derived[git_tag]

\* A comparison that orders shorter semvers first, as a numeric comparison of
\* the leading component would.
Tag_compare_numeric(a, b) ==
    IF a.semver # None /\ b.semver # None /\ Len(a.semver[1]) # Len(b.semver[1])
    THEN (IF Len(a.semver[1]) < Len(b.semver[1]) THEN -1 ELSE 1)
    ELSE OptStrCmp(a.semver, b.semver)

\* Tag::compare_semver: a.semver().cmp(&b.semver())
Tag_compare_semver(a, b) == OptStrCmp(a.semver, b.semver)

\* Tag::compare_semver on raw tag values.
compare_semver(a, b) == Tag_compare_semver(Tag_new(a), Tag_new(b))

\* Iterator::max_by(Tag::compare_semver) over the tags of a sequence: the index of
\* the last of the maximal tags, 0 for an empty sequence.  The fold keeps the
\* running maximum unless the next element compares greater or equal.
RECURSIVE MaxByFrom(_, _, _)
MaxByFrom(tags, best, i) ==
    IF i > Len(tags) THEN best
    ELSE MaxByFrom(tags, IF compare_semver(tags[best], tags[i]) = 1 THEN best ELSE i, i + 1)

max_by(tags) == IF tags = <<>> THEN 0 ELSE MaxByFrom(tags, 1, 2)

----------------------------------------------------------------------------
(* Registry data (src/src/data.rs, src/src/version.rs).                    *)

\* Bound of the registry model: the number of commands run.
MaxCommands == 3

CmdKinds == {"Proton", "Wine"}

Tags == {TagA, TagB}

\* command_input::application_name
application_name(kind) == IF kind = "Proton" THEN "Steam" ELSE "Lutris"
Apps == {"Steam", "Lutris"}

\* TagKind::str as text
KindStr(kind) ==
    IF kind = "Proton" THEN <<"P", "r", "o", "t", "o", "n">>
    ELSE IF kind = "Wine" THEN <<"W", "i", "n", "e">>
    ELSE <<"L", "o", "L", "_", "W", "i", "n", "e">>

\* Version::new
Version(label, tag, kind) == [label |-> label, tag |-> tag, kind |-> kind]

\* ManagedVersion::try_from(Version): the label defaults to the tag.
ManagedVersion_from(version) ==
    [tag |-> version.tag, kind |-> version.kind,
     label |-> IF version.label = None THEN version.tag ELSE version.label[1],
     directory_name |-> <<>>]

\* PartialEq for ManagedVersion / dyn Versioned: tag and kind only.
VersionedEq(a, tag, kind) == a.tag = tag /\ a.kind = kind

\* ManagedVersions::get_version_index: Iterator::position, 0 for None.
get_version_index(versions, tag, kind) ==
    LET hits == {i \in 1..Len(versions) : VersionedEq(versions[i], tag, kind)}
    IN IF hits = {} THEN 0 ELSE CHOOSE i \in hits : \A j \in hits : i <= j

\* A lookup that never finds the version.
find_version_never(versions, tag, kind) == None

find_version(versions, tag, kind) ==
    LET index == get_version_index(versions, tag, kind)
    IN IF index = 0 THEN None ELSE Some(versions[index])

\* ManagedVersions::add: Vec::push
ManagedVersions_add(versions, version) == Append(versions, version)

\* Vec::swap_remove: the last element takes the removed element's place.
swap_remove(versions, index) ==
    [j \in 1..(Len(versions) - 1) |-> IF j = index THEN versions[Len(versions)] ELSE versions[j]]

\* ManagedVersions::remove: [removed (Option), versions]
ManagedVersions_remove(versions, tag, kind) ==
    LET index == get_version_index(versions, tag, kind)
    IN IF index = 0 THEN [removed |-> None, versions |-> versions]
       ELSE [removed |-> Some(versions[index]), versions |-> swap_remove(versions, index)]

\* A lookup that returns the first version of the kind, not the maximum.
find_first_by_kind(versions, kind) ==
    LET OfKind(v) == v.kind = kind
        of_kind == SelectSeq(versions, OfKind)
    IN IF of_kind = <<>> THEN None ELSE Some(of_kind[1])

\* ManagedVersions::find_latest_by_kind
find_latest_by_kind(versions, kind) ==
    LET OfKind(v) == v.kind = kind
        of_kind == SelectSeq(versions, OfKind)
        latest == max_by([i \in 1..Len(of_kind) |-> of_kind[i].tag])
    IN IF latest = 0 THEN None ELSE Some(of_kind[latest])

\* ManagedVersions::versions_before_given: the versions of the cutoff's kind that
\* order strictly before the cutoff under the semver comparator, in registry order.
versions_before_given(versions, tag, kind) ==
    LET Before(v) == v.kind = kind /\ compare_semver(v.tag, tag) = -1
    IN SelectSeq(versions, Before)

\* ApplicationConfig::check_if_version_is_in_use: exact equality of the version's
\* directory name and the config's recorded active value.
check_if_version_is_in_use(app_config, version) == app_config = version.directory_name

----------------------------------------------------------------------------
(* Labels (src/src/label.rs).                                              *)

\* str::rsplit("_") first item: the text after the last "_", the whole text if none.
RECURSIVE AfterLast(_, _)
AfterLast(s, sep) ==
    IF s = <<>> THEN <<>>
    ELSE IF s[Len(s)] = sep THEN <<>>
    ELSE AfterLast(SubSeq(s, 1, Len(s) - 1), sep) \o <<s[Len(s)]>>

\* The last element after sort_unstable_by(String::cmp).
SortedLast(labels) ==
    CHOOSE l \in Range(labels) : \A m \in Range(labels) : StrCmp(m, l) <= 0

\* Label::create_latest_version_label: [ok, label]; an Err when the text after the
\* last "_" of the greatest matching label is not a number.
create_latest_version_label(tag, labels) ==
    LET Matches(l) == Contains(l, tag)
        matching == SelectSeq(labels, Matches)
    IN IF matching # <<>>
       THEN LET counter == ParseUsize(AfterLast(SortedLast(matching), "_"))
            IN IF counter = None THEN [ok |-> FALSE, label |-> <<>>]
               ELSE [ok |-> TRUE, label |-> tag \o <<"_">> \o ToDecimal(counter[1] + 1)]
       ELSE [ok |-> TRUE, label |-> tag \o <<"_", "1">>]

----------------------------------------------------------------------------
(* Archives and checksums (gehelper-lib/src/archive.rs).                   *)

ArchiveGz == [format |-> "gz", bytes |-> <<"a">>, top |-> <<"P", "G", "E">>]
ArchiveXz == [format |-> "xz", bytes |-> <<"b">>, top |-> <<"W", "G", "E">>]

\* HEXLOWER(SHA512(bytes)), tabulated for the archives of the model and cut to two
\* hex digits.
HexSha512(bytes) ==
    IF bytes = <<"a">> THEN <<"1", "f">>
    ELSE IF bytes = <<"b">> THEN <<"2", "e">>
    ELSE <<"0", "0">>

IsWhitespace(c) == c \in {" ", "\n"}

\* str::split_whitespace().next(): the first maximal run of non-whitespace.
RECURSIVE SkipWhitespace(_)
SkipWhitespace(s) ==
    IF s # <<>> /\ IsWhitespace(Head(s)) THEN SkipWhitespace(Tail(s)) ELSE s

RECURSIVE TakeToken(_)
TakeToken(s) ==
    IF s = <<>> \/ IsWhitespace(Head(s)) THEN <<>> ELSE <<Head(s)>> \o TakeToken(Tail(s))

first_token(text) ==
    LET rest == SkipWhitespace(text)
    IN IF rest = <<>> THEN None ELSE Some(TakeToken(rest))

\* A comparison of the whole checksum text with the digest, without the split.
checksums_match_whole(compressed_tar, expected_sum) ==
    IF first_token(expected_sum) = None THEN "panic"
    ELSE IF expected_sum = HexSha512(compressed_tar) THEN "match" ELSE "mismatch"

\* archive::checksums_match: "panic" when the checksum text holds no token (unwrap
\* of None), else whether the first token equals the archive's hex digest.
checksums_match(compressed_tar, expected_sum) ==
    LET token == first_token(expected_sum)
    IN IF token = None THEN "panic"
       ELSE IF token[1] = HexSha512(compressed_tar) THEN "match" ELSE "mismatch"

\* archive::extract_compressed_tar: Proton archives are gzip, Wine archives are xz;
\* the other decoder fails before any entry is unpacked.
decoder_accepts(kind, archive) ==
    IF kind = "Proton" THEN archive.format = "gz" ELSE archive.format = "xz"

ChecksumTexts ==
    { <<"1", "f", " ", "x">>, <<"2", "e">>, <<"0", "0", " ", "x">>, <<" ">> }

----------------------------------------------------------------------------
(* Filesystem manager (src/src/filesystem.rs).                             *)

\* FsMng::setup_version: extract into the state directory, name the directory
\* after the archive's top-level entry and the label, move it into the tool
\* directory.  c.extract and c.io are what the filesystem answers; sdir logs the
\* top-level directories unpacked.
setup_version(version, archive, c, tdir, sdir) ==
    LET mv == ManagedVersion_from(version)
        app == application_name(mv.kind)
        directory_name == archive.top \o <<"_">> \o mv.label
    IN IF ~decoder_accepts(mv.kind, archive)
       THEN [ok |-> FALSE, version |-> mv, toolDir |-> tdir, unpacked |-> sdir]
       ELSE IF c.extract = "fail"
       THEN [ok |-> FALSE, version |-> mv, toolDir |-> tdir, unpacked |-> sdir \cup {archive.top}]
       ELSE IF c.io = "fail" \/ <<app, directory_name>> \in tdir
       THEN [ok |-> FALSE, version |-> mv, toolDir |-> tdir, unpacked |-> sdir \cup {archive.top}]
       ELSE [ok |-> TRUE,
             version |-> [mv EXCEPT !.directory_name = directory_name],
             toolDir |-> tdir \cup {<<app, directory_name>>},
             unpacked |-> sdir \cup {archive.top}]

\* FsMng::remove_version: fs::remove_dir_all of the version's directory.
fs_remove_version(version, c, tdir) ==
    LET path == <<application_name(version.kind), version.directory_name>>
    IN IF path \notin tdir \/ version.directory_name \in c.failDirs
       THEN [ok |-> FALSE, toolDir |-> tdir]
       ELSE [ok |-> TRUE, toolDir |-> tdir \ {path}]

GE_MAN_PREFIX == <<"G", "E", "-", "M", "A", "N", "_">>

\* FsMng::migrate_folder: a source that already lies in a tool directory is
\* registered under its own name, any other source is moved.
migrate_folder(version, c, tdir) ==
    LET mv == ManagedVersion_from(version)
        app == application_name(mv.kind)
        dir_name == GE_MAN_PREFIX \o KindStr(mv.kind) \o <<"_">> \o mv.tag \o <<"_", "L">> \o mv.label
    IN IF c.src = "inplace"
       THEN [ok |-> TRUE, version |-> [mv EXCEPT !.directory_name = c.srcName], toolDir |-> tdir]
       ELSE IF c.io = "fail" \/ <<app, dir_name>> \in tdir
       THEN [ok |-> FALSE, version |-> mv, toolDir |-> tdir]
       ELSE [ok |-> TRUE, version |-> [mv EXCEPT !.directory_name = dir_name],
             toolDir |-> tdir \cup {<<app, dir_name>>}]

----------------------------------------------------------------------------
(* Command handlers (src/src/command_execution.rs).                        *)

Out(r, note, versions, tdir, sdir, rem) ==
    [res |-> r, note |-> note, versions |-> versions, toolDir |-> tdir, unpacked |-> sdir,
     removed |-> rem]

\* add without the bail on a checksum mismatch.
add_unverified(c, versions, tdir, sdir) ==
    LET given == IF c.tag # None THEN c.tag ELSE c.fetch
    IN IF given = None THEN Out("err", "no_latest", versions, tdir, sdir, <<>>)
       ELSE
       LET version == Version(c.label, given[1], c.kind)
       IN IF find_version(versions, version.tag, version.kind) # None
          THEN Out("ok", "already_managed", versions, tdir, sdir, <<>>)
          ELSE IF c.assets = None THEN Out("err", "download", versions, tdir, sdir, <<>>)
          ELSE
          LET archive == c.assets[1].archive
              s == setup_version(version, archive, c, tdir, sdir)
          IN IF ~s.ok THEN Out("err", "setup", versions, s.toolDir, s.unpacked, <<>>)
             ELSE Out("ok", "added", ManagedVersions_add(versions, s.version),
                      s.toolDir, s.unpacked, <<>>)

\* add with the download ahead of the lookup of the version in the registry.
add_downloads_first(c, versions, tdir, sdir) ==
    LET given == IF c.tag # None THEN c.tag ELSE c.fetch
    IN IF given = None THEN Out("err", "no_latest", versions, tdir, sdir, <<>>)
       ELSE IF c.assets = None THEN Out("err", "download", versions, tdir, sdir, <<>>)
       ELSE
       LET version == Version(c.label, given[1], c.kind)
       IN IF find_version(versions, version.tag, version.kind) # None
          THEN Out("ok", "already_managed", versions, tdir, sdir, <<>>)
          ELSE
          LET archive == c.assets[1].archive
              sum == IF c.skip THEN "skipped"
                     ELSE checksums_match(archive.bytes, c.assets[1].checksum)
          IN IF sum = "panic" THEN Out("panic", "checksum", versions, tdir, sdir, <<>>)
             ELSE IF sum = "mismatch" THEN Out("err", "checksum", versions, tdir, sdir, <<>>)
             ELSE
             LET s == setup_version(version, archive, c, tdir, sdir)
             IN IF ~s.ok THEN Out("err", "setup", versions, s.toolDir, s.unpacked, <<>>)
                ELSE Out("ok", "added", ManagedVersions_add(versions, s.version),
                         s.toolDir, s.unpacked, <<>>)

\* CommandHandler::add
add(c, versions, tdir, sdir) ==
    LET given == IF c.tag # None THEN c.tag ELSE c.fetch
    IN IF given = None THEN Out("err", "no_latest", versions, tdir, sdir, <<>>)
       ELSE
       LET version == Version(c.label, given[1], c.kind)
       IN IF find_version(versions, version.tag, version.kind) # None
          THEN Out("ok", "already_managed", versions, tdir, sdir, <<>>)
          ELSE IF c.assets = None THEN Out("err", "download", versions, tdir, sdir, <<>>)
          ELSE
          LET archive == c.assets[1].archive
              sum == IF c.skip THEN "skipped"
                     ELSE checksums_match(archive.bytes, c.assets[1].checksum)
          IN IF sum = "panic" THEN Out("panic", "checksum", versions, tdir, sdir, <<>>)
             ELSE IF sum = "mismatch" THEN Out("err", "checksum", versions, tdir, sdir, <<>>)
             ELSE
             LET s == setup_version(version, archive, c, tdir, sdir)
             IN IF ~s.ok THEN Out("err", "setup", versions, s.toolDir, s.unpacked, <<>>)
                ELSE Out("ok", "added", ManagedVersions_add(versions, s.version),
                         s.toolDir, s.unpacked, <<>>)

\* remove_version without the in-use bail.
remove_version_unchecked(app_config, version, versions, c, tdir) ==
    LET f == IF c.forget THEN [ok |-> TRUE, toolDir |-> tdir] ELSE fs_remove_version(version, c, tdir)
    IN IF ~f.ok THEN [ok |-> FALSE, versions |-> versions, toolDir |-> tdir]
       ELSE LET r == ManagedVersions_remove(versions, version.tag, version.kind)
            IN [ok |-> r.removed # None, versions |-> r.versions, toolDir |-> f.toolDir]

\* CommandHandler::remove_version
remove_version(app_config, version, versions, c, tdir) ==
    IF check_if_version_is_in_use(app_config, version)
    THEN [ok |-> FALSE, versions |-> versions, toolDir |-> tdir]
    ELSE
    LET f == IF c.forget THEN [ok |-> TRUE, toolDir |-> tdir] ELSE fs_remove_version(version, c, tdir)
    IN IF ~f.ok THEN [ok |-> FALSE, versions |-> versions, toolDir |-> tdir]
       ELSE LET r == ManagedVersions_remove(versions, version.tag, version.kind)
            IN [ok |-> r.removed # None, versions |-> r.versions, toolDir |-> f.toolDir]

\* RemoveCommandInput::create_from and CommandHandler::remove.  config is the
\* Option the config read yields.  The read's error reaches the handler as a
\* SteamConfigError / LutrisConfigError inside an anyhow::Error, so the
\* downcast to io::Error that is meant to let a missing file pass finds
\* nothing and the handler bails.
remove(c, versions, tdir, sdir, config) ==
    LET found == find_version(versions, c.tag[1], c.kind)
    IN IF found = None THEN Out("err", "not_managed", versions, tdir, sdir, <<>>)
       ELSE IF config = None THEN Out("err", "no_config", versions, tdir, sdir, <<>>)
       ELSE LET r == remove_version(config[1], found[1], versions, c, tdir)
            IN IF r.ok THEN Out("ok", "removed", r.versions, r.toolDir, sdir, <<found[1]>>)
               ELSE Out("err", "remove", r.versions, r.toolDir, sdir, <<>>)

\* A loop that stops at the first removal that fails.
RECURSIVE clean_loop_stops(_, _, _, _, _, _)
clean_loop_stops(todo, app_config, versions, c, tdir, rem) ==
    IF todo = <<>> THEN [versions |-> versions, toolDir |-> tdir, removed |-> rem]
    ELSE LET r == remove_version(app_config, Head(todo), versions, c, tdir)
         IN IF ~r.ok THEN [versions |-> versions, toolDir |-> tdir, removed |-> rem]
            ELSE clean_loop_stops(Tail(todo), app_config, r.versions, c, r.toolDir,
                                  Append(rem, Head(todo)))

\* The loop of CommandHandler::clean: a failed removal is reported and skipped.
RECURSIVE clean_loop(_, _, _, _, _, _)
clean_loop(todo, app_config, versions, c, tdir, rem) ==
    IF todo = <<>> THEN [versions |-> versions, toolDir |-> tdir, removed |-> rem]
    ELSE LET r == remove_version(app_config, Head(todo), versions, c, tdir)
         IN clean_loop(Tail(todo), app_config, r.versions, c, r.toolDir,
                       IF r.ok THEN Append(rem, Head(todo)) ELSE rem)

\* A selection that hands the whole registry to the loop.
get_versions_for_clean_unfiltered(c, versions) == versions

\* CommandHandler::get_versions_for_clean with a cutoff version
get_versions_for_clean(c, versions) == versions_before_given(versions, c.tag[1], c.kind)

\* CleanCommandInput::create_from and CommandHandler::clean
clean(c, versions, tdir, sdir, config) ==
    IF config = None THEN Out("err", "no_config", versions, tdir, sdir, <<>>)
    ELSE LET r == clean_loop(get_versions_for_clean(c, versions), config[1], versions, c, tdir, <<>>)
         IN Out("ok", "cleaned", r.versions, r.toolDir, sdir, r.removed)

\* CommandHandler::migrate
migrate(c, versions, tdir, sdir) ==
    LET version == Version(c.label, c.tag[1], c.kind)
    IN IF find_version(versions, version.tag, version.kind) # None
       THEN Out("err", "already_managed", versions, tdir, sdir, <<>>)
       ELSE LET m == migrate_folder(version, c, tdir)
            IN IF ~m.ok THEN Out("err", "migrate", versions, m.toolDir, sdir, <<>>)
               ELSE Out("ok", "migrated", ManagedVersions_add(versions, m.version),
                        m.toolDir, sdir, <<>>)

\* CommandHandler::apply: the version to apply, None when it is not managed.
apply_target(c, versions) ==
    IF c.tag # None THEN find_version(versions, c.tag[1], c.kind)
    ELSE find_latest_by_kind(versions, c.kind)

----------------------------------------------------------------------------
(* main() (src/src/main.rs): one command per process run.  A command       *)
(* action is main's branch up to the handler's return: it loads the        *)
(* registry file, builds the input and runs the handler.  What the remote  *)
(* API and the filesystem answer is drawn with the command, each answer    *)
(* only where the handler asks for it.                                     *)

OldName == <<"o", "l", "d">>

NullCmd ==
    [name |-> "none", tag |-> None, kind |-> "Proton", label |-> None, skip |-> FALSE,
     forget |-> FALSE, src |-> "none", srcName |-> <<>>, fetch |-> None, assets |-> None,
     extract |-> "ok", io |-> "ok", failDirs |-> {}]

\* The archive a release of the kind carries.
ArchiveOf(kind) == IF kind = "Proton" THEN ArchiveGz ELSE ArchiveXz

\* A main that saves whatever the handler returned.
main_saves_always(result) == "save"

\* main: the handler's Err is returned with `?`, only its Ok reaches the save.
main_after_handler(result) == IF result = "ok" THEN "save" ELSE "done"

\* ManagedVersions::from_file succeeded
Loaded == persisted.ok

Handled(c, o) ==
    /\ cmd' = c
    /\ before' = persisted
    /\ res' = o.res
    /\ mem' = o.versions
    /\ toolDir' = o.toolDir
    /\ unpacked' = o.unpacked
    /\ removed' = o.removed
    /\ added' = IF o.note \in {"added", "migrated"} THEN <<o.versions[Len(o.versions)]>>
                ELSE IF o.note = "already_managed" /\ o.res = "ok"
                THEN find_version(o.versions, IF c.tag # None THEN c.tag[1] ELSE c.fetch[1], c.kind)
                ELSE <<>>
    /\ pc' = main_after_handler(o.res)
    /\ ncmd' = ncmd + 1
    /\ UNCHANGED <<persisted, active, cfgVars, scanVars, libVars>>

\* ManagedVersions::from_file fails on a malformed file: main returns the error.
LoadFails ==
    /\ pc = "idle"
    /\ ncmd < MaxCommands
    /\ ~Loaded
    /\ res' = "err"
    /\ pc' = "done"
    /\ before' = persisted
    /\ ncmd' = ncmd + 1
    /\ UNCHANGED <<persisted, toolDir, unpacked, active, cmd, mem, removed, added, cfgVars, scanVars, libVars>>

\* What the downloader answers to download_release_assets.
AssetsAnswers(kind, skip) ==
    {None} \cup
    IF skip THEN {Some([archive |-> ArchiveOf(kind), checksum |-> <<>>])}
    ELSE {Some([archive |-> ArchiveOf(kind), checksum |-> t]) : t \in ChecksumTexts}

AddCmd ==
    /\ pc = "idle"
    /\ ncmd < MaxCommands
    /\ Loaded
    /\ \E tag \in {None} \cup {Some(t) : t \in Tags}, kind \in CmdKinds, skip \in BOOLEAN :
       \E fetch \in IF tag = None THEN {None, Some(TagA)} ELSE {None} :
         LET given == IF tag # None THEN tag ELSE fetch
             downloads == given # None /\ find_version(persisted.versions, given[1], kind) = None
         IN \E assets \in IF downloads THEN AssetsAnswers(kind, skip) ELSE {None} :
              LET verified == /\ downloads
                              /\ assets # None
                              /\ \/ skip
                                 \/ checksums_match(assets[1].archive.bytes, assets[1].checksum) = "match"
              IN \E fs \in IF verified THEN {"ok", "extract", "io"} ELSE {"ok"} :
                   LET c == [NullCmd EXCEPT !.name = "add", !.tag = tag, !.kind = kind,
                                            !.skip = skip, !.fetch = fetch, !.assets = assets,
                                            !.extract = IF fs = "extract" THEN "fail" ELSE "ok",
                                            !.io = IF fs = "io" THEN "fail" ELSE "ok"]
                   IN Handled(c, add(c, persisted.versions, toolDir, unpacked))

MigrateCmd ==
    /\ pc = "idle"
    /\ ncmd < MaxCommands
    /\ Loaded
    /\ \E tag \in Tags, kind \in CmdKinds, src \in {"inplace", "move"} :
         LET managed == find_version(persisted.versions, tag, kind) # None
         IN \E io \in IF ~managed /\ src = "move" THEN {"ok", "fail"} ELSE {"ok"} :
              LET c == [NullCmd EXCEPT !.name = "migrate", !.tag = Some(tag), !.kind = kind,
                                       !.src = src,
                                       !.srcName = IF src = "inplace" THEN OldName ELSE <<>>,
                                       !.io = io]
              IN Handled(c, migrate(c, persisted.versions, toolDir, unpacked))

\* The directories whose removal the handler may attempt.
Removable(versions, config) ==
    {versions[i].directory_name : i \in 1..Len(versions)} \ Range(config)

RemoveCmd ==
    /\ pc = "idle"
    /\ ncmd < MaxCommands
    /\ Loaded
    /\ \E tag \in Tags, kind \in CmdKinds, forget \in BOOLEAN :
         LET config == active[application_name(kind)]
             found == find_version(persisted.versions, tag, kind)
             reaches == found # None /\ config # None /\ ~forget
                        /\ ~check_if_version_is_in_use(config[1], found[1])
         IN \E fail \in IF reaches THEN {{}, {found[1].directory_name}} ELSE {{}} :
              LET c == [NullCmd EXCEPT !.name = "remove", !.tag = Some(tag), !.kind = kind,
                                       !.forget = forget, !.failDirs = fail]
              IN Handled(c, remove(c, persisted.versions, toolDir, unpacked, config))

\* The cutoff of a clean need not be a managed version.
CutoffTags == Tags \cup {TagWine71}

CleanCmd ==
    /\ pc = "idle"
    /\ ncmd < MaxCommands
    /\ Loaded
    /\ \E tag \in CutoffTags, kind \in CmdKinds, forget \in BOOLEAN :
         LET config == active[application_name(kind)]
             todo == versions_before_given(persisted.versions, tag, kind)
         IN \E fail \in {{}} \cup IF config # None /\ ~forget
                                  THEN {{d} : d \in Removable(todo, config)} ELSE {} :
              LET c == [NullCmd EXCEPT !.name = "clean", !.tag = Some(tag), !.kind = kind,
                                       !.forget = forget, !.failDirs = fail]
              IN Handled(c, clean(c, persisted.versions, toolDir, unpacked, config))

\* FsMng::apply_to_app_config as the registry sees it: the recorded active value
\* of the application's config.  A missing Steam config is an error, a missing
\* Lutris runner config is created.
applied_config(config, version, io) ==
    IF config = None /\ version.kind = "Proton" THEN [ok |-> FALSE, config |-> config]
    ELSE IF io = "fail" THEN [ok |-> FALSE, config |-> config]
    ELSE [ok |-> TRUE, config |-> Some(version.directory_name)]

ApplyCmd ==
    /\ pc = "idle"
    /\ ncmd < MaxCommands
    /\ Loaded
    /\ \E tag \in {None} \cup {Some(t) : t \in Tags}, kind \in CmdKinds :
         LET c == [NullCmd EXCEPT !.name = "apply", !.tag = tag, !.kind = kind]
             target == apply_target(c, persisted.versions)
         IN \E io \in IF target # None THEN {"ok", "fail"} ELSE {"ok"} :
              LET a == IF target = None THEN [ok |-> FALSE, config |-> active[application_name(kind)]]
                       ELSE applied_config(active[application_name(kind)], target[1], io)
              IN /\ cmd' = [c EXCEPT !.io = io]
                 /\ before' = persisted
                 /\ mem' = persisted.versions
                 /\ res' = IF a.ok THEN "ok" ELSE "err"
                 /\ active' = [active EXCEPT ![application_name(kind)] = a.config]
                 /\ pc' = "done"
                 /\ ncmd' = ncmd + 1
                 /\ UNCHANGED <<persisted, toolDir, unpacked, removed, added, cfgVars, scanVars, libVars>>

\* ManagedVersions::write_to_file after a successful handler: fs::write either
\* writes the whole document, fails before it opens the file, or fails after
\* truncating it.  main then applies the added version when add was given --apply.
Save ==
    /\ pc = "save"
    /\ \E outcome \in {"ok", "unopened", "torn"} :
         /\ persisted' = IF outcome = "ok" THEN [ok |-> TRUE, versions |-> mem]
                         ELSE IF outcome = "torn" THEN [ok |-> FALSE, versions |-> <<>>]
                         ELSE persisted
         /\ pc' \in IF outcome = "ok" /\ cmd.name = "add" THEN {"apply", "done"} ELSE {"done"}
    /\ UNCHANGED <<toolDir, unpacked, active, cmd, mem, res, before, removed, added, ncmd, cfgVars, scanVars, libVars>>

\* main's apply of new_versions[0] after `add --apply`.
ApplyAdded ==
    /\ pc = "apply"
    /\ \E io \in {"ok", "fail"} :
         LET c == [NullCmd EXCEPT !.name = "apply", !.tag = Some(added[1].tag),
                                  !.kind = added[1].kind]
             target == apply_target(c, mem)
             config == active[application_name(added[1].kind)]
             a == IF target = None THEN [ok |-> FALSE, config |-> config]
                  ELSE applied_config(config, target[1], io)
         IN active' = [active EXCEPT ![application_name(added[1].kind)] = a.config]
    /\ pc' = "done"
    /\ UNCHANGED <<persisted, toolDir, unpacked, cmd, mem, res, before, removed, added, ncmd, cfgVars, scanVars, libVars>>

\* The process exits; the next command starts from the files on disk.
Exit ==
    /\ pc = "done"
    /\ pc' = "idle"
    /\ cmd' = NullCmd
    /\ mem' = <<>>
    /\ res' = "none"
    /\ before' = persisted
    /\ removed' = <<>>
    /\ added' = <<>>
    /\ unpacked' = {}
    /\ UNCHANGED <<persisted, toolDir, active, ncmd, cfgVars, scanVars, libVars>>

RegInit ==
    /\ persisted = [ok |-> TRUE, versions |-> <<>>]
    /\ toolDir = {<<"Steam", OldName>>}
    /\ unpacked = {}
    /\ active = [a \in Apps |-> IF a = "Steam" THEN Some(OldName) ELSE None]
    /\ pc = "idle"
    /\ cmd = NullCmd
    /\ mem = <<>>
    /\ res = "none"
    /\ before = [ok |-> TRUE, versions |-> <<>>]
    /\ removed = <<>>
    /\ added = <<>>
    /\ ncmd = 0

RegNext ==
    \/ LoadFails
    \/ AddCmd
    \/ MigrateCmd
    \/ RemoveCmd
    \/ CleanCmd
    \/ ApplyCmd
    \/ Save
    \/ ApplyAdded
    \/ Exit

----------------------------------------------------------------------------
(* Properties of the registry and its commands.                            *)

MutatingCommands == {"add", "remove", "migrate", "clean"}

Key(v) == <<v.tag, v.kind, v.label>>

NoDuplicateKey(versions) ==
    \A i, j \in 1..Len(versions) : i # j => Key(versions[i]) # Key(versions[j])

\* C1: no two entries of the registry, in memory or on disk, share the same
\* (tag, kind, label) triple.
C1_UniqueKeys == NoDuplicateKey(mem) /\ NoDuplicateKey(persisted.versions)

\* An add of a version that is already managed has run on a registry of two.
C1_Witness ==
    /\ cmd.name = "add"
    /\ res = "ok"
    /\ added # <<>>
    /\ mem = before.versions
    /\ Len(mem) >= 2

\* The tag an add command resolves to (Option).
GivenTag(c) == IF c.tag # None THEN c.tag ELSE c.fetch

\* An add whose (tag, kind) the registry on disk already holds.
DuplicateAdd(c) ==
    /\ c.name = "add"
    /\ GivenTag(c) # None
    /\ \E i \in 1..Len(persisted.versions) :
         /\ persisted.versions[i].tag = GivenTag(c)[1]
         /\ persisted.versions[i].kind = c.kind

\* The counters N of the labels "<tag>_N" the registry holds for (tag, kind).
Counters(versions, tag, kind) ==
    {n \in 1..(Len(versions) + 1) :
        \E i \in 1..Len(versions) :
            /\ versions[i].tag = tag
            /\ versions[i].kind = kind
            /\ versions[i].label = tag \o <<"_">> \o ToDecimal(n)}

NextCounter(versions, tag, kind) ==
    LET ns == Counters(versions, tag, kind)
    IN IF ns = {} THEN 1 ELSE 1 + CHOOSE n \in ns : \A m \in ns : m <= n

\* C2: adding a (tag, kind) the registry already holds appends an entry whose
\* label is the tag followed by "_1", or by "_N+1" when the highest suffix
\* already present is "_N".
C2_DuplicateAddLabels ==
    [][(pc = "idle" /\ DuplicateAdd(cmd')) =>
          /\ Len(mem') = Len(persisted.versions) + 1
          /\ SubSeq(mem', 1, Len(persisted.versions)) = persisted.versions
          /\ mem'[Len(mem')].label =
                GivenTag(cmd')[1] \o <<"_">>
                \o ToDecimal(NextCounter(persisted.versions, GivenTag(cmd')[1], cmd'.kind))]_vars

ChecksumDiffers(c) ==
    /\ c.name = "add"
    /\ ~c.skip
    /\ c.assets # None
    /\ first_token(c.assets[1].checksum) # None
    /\ first_token(c.assets[1].checksum)[1] # HexSha512(c.assets[1].archive.bytes)

\* C4: an add whose downloaded archive does not match the published checksum
\* fails before anything is extracted or installed, and registers nothing.
C4_MismatchAborts ==
    [][(pc = "idle" /\ ChecksumDiffers(cmd')) =>
          /\ res' = "err"
          /\ pc' = "done"
          /\ unpacked' = {}
          /\ toolDir' = toolDir
          /\ mem' = persisted.versions
          /\ persisted' = persisted]_vars

C4_Witness ==
    /\ pc = "done"
    /\ ChecksumDiffers(cmd)
    /\ res = "err"
    /\ unpacked = {}

\* The version is the one its application's config records as active.
InUse(v) == active[application_name(v.kind)] = Some(v.directory_name)

\* The versions a remove or clean command selects.
Targeted(c, v) ==
    /\ v.kind = c.kind
    /\ \/ c.name = "remove" /\ v.tag = c.tag[1]
       \/ c.name = "clean" /\ compare_semver(v.tag, c.tag[1]) = -1

\* C8: a remove or clean never removes the version its application's config
\* records as active: the version stays in the registry and on disk, and a
\* remove of it ends in an error.
C8_InUseRefused ==
    [][(pc = "idle" /\ cmd'.name \in {"remove", "clean"}) =>
          \A i \in 1..Len(persisted.versions) :
             LET v == persisted.versions[i]
             IN (InUse(v) /\ Targeted(cmd', v)) =>
                   /\ \E j \in 1..Len(mem') : mem'[j] = v
                   /\ \A j \in 1..Len(removed') : removed'[j] # v
                   /\ (<<application_name(v.kind), v.directory_name>> \in toolDir) =>
                         (<<application_name(v.kind), v.directory_name>> \in toolDir')
                   /\ (cmd'.name = "remove") => (res' = "err")]_vars

\* A remove of the version in use was refused.
C8_Witness ==
    /\ pc = "done"
    /\ cmd.name = "remove"
    /\ res = "err"
    /\ \E i \in 1..Len(mem) : InUse(mem[i]) /\ Targeted(cmd, mem[i])

\* A clean ran whose selection held the version in use.
C8_CleanWitness ==
    /\ cmd.name = "clean"
    /\ res = "ok"
    /\ \E i \in 1..Len(mem) : InUse(mem[i]) /\ Targeted(cmd, mem[i])

----------------------------------------------------------------------------
(* Host config files (gehelper-lib/src/config.rs).  A file is the sequence *)
(* of its bytes.                                                           *)

\* The file cut after each "\n": every piece keeps its line ending.
RECURSIVE RawLines(_)
RawLines(bytes) ==
    IF bytes = <<>> THEN <<>>
    ELSE LET n == Find(bytes, <<"\n">>)
         IN IF n = 0 THEN <<bytes>>
            ELSE <<SubSeq(bytes, 1, n)>> \o RawLines(SubSeq(bytes, n + 1, Len(bytes)))

\* BufRead::lines: a line loses its "\n", and a "\r" that stood before it.
StripEol(raw) ==
    IF raw # <<>> /\ raw[Len(raw)] = "\n"
    THEN LET l == SubSeq(raw, 1, Len(raw) - 1)
         IN IF l # <<>> /\ l[Len(l)] = "\r" THEN SubSeq(l, 1, Len(l) - 1) ELSE l
    ELSE raw

lines(bytes) == [i \in 1..Len(RawLines(bytes)) |-> StripEol(RawLines(bytes)[i])]

\* [String]::join
RECURSIVE join(_, _)
join(ls, sep) ==
    IF ls = <<>> THEN <<>>
    ELSE IF Len(ls) = 1 THEN ls[1]
    ELSE ls[1] \o sep \o join(Tail(ls), sep)

COMPAT_TOOL_MAPPING == <<"C", "o", "m", "p", "a", "t", "T", "o", "o", "l", "M", "a", "p", "p", "i", "n", "g">>
DEFAULT_PROTON_VERSION_INDEX == <<"\"", "0", "\"">>
WINE_VERSION_ATTRIBUTE == <<"v", "e", "r", "s", "i", "o", "n">>

\* The positions (from 1) of the character in the line.
Positions(line, ch) == {i \in 1..Len(line) : line[i] = ch}

Max(S) == CHOOSE x \in S : \A y \in S : y <= x
Min(S) == CHOOSE x \in S : \A y \in S : x <= y

NoConfig(status) == [status |-> status, lines |-> <<>>, line |-> <<>>, idx |-> 0, start |-> 0, end |-> 0]

\* SteamConfig::create_copy.  file is the Option of the file's bytes; idx counts
\* lines from 0 and start, end are offsets into the line, as in the code.  The
\* status is "ok", "io" (no file), "noattr", or "panic" (an unwrap of None).
SteamConfig_create_copy(file) ==
    IF file = None THEN NoConfig("io")
    ELSE
    LET ls == lines(file[1])
        hits == {i \in 1..Len(ls) :
                    /\ Contains(ls[i], DEFAULT_PROTON_VERSION_INDEX)
                    /\ \E j \in 1..i : Contains(ls[j], COMPAT_TOOL_MAPPING)}
    IN IF hits = {} THEN NoConfig("noattr")
       ELSE
       LET dir_name_line_idx == (Min(hits) - 1) + 2
       IN IF dir_name_line_idx >= Len(ls) THEN NoConfig("panic")
          ELSE
          LET dir_name_line == ls[dir_name_line_idx + 1]
              quotes == Positions(dir_name_line, "\"")
          IN IF Cardinality(quotes) < 2 THEN NoConfig("panic")
             ELSE [status |-> "ok", lines |-> ls, line |-> dir_name_line,
                   idx |-> dir_name_line_idx,
                   start |-> Max(quotes \ {Max(quotes)}),
                   end |-> Max(quotes) - 1]

\* LutrisConfig::create_copy: the last line that contains "version" is recorded;
\* every such line is searched for ": " and the search result unwrapped.
LutrisConfig_create_copy(file) ==
    IF file = None THEN NoConfig("io")
    ELSE
    LET ls == lines(file[1])
        hits == {i \in 1..Len(ls) : Contains(ls[i], WINE_VERSION_ATTRIBUTE)}
    IN IF \E i \in hits : Find(ls[i], <<":", " ">>) = 0 THEN NoConfig("panic")
       ELSE IF hits = {} THEN NoConfig("noattr")
       ELSE LET line == ls[Max(hits)]
            IN [status |-> "ok", lines |-> ls, line |-> line, idx |-> Max(hits) - 1,
                start |-> (Find(line, <<":", " ">>) - 1) + 2, end |-> Len(line)]

\* String::replace_range(start..end, text)
replace_range(line, start, end, text) ==
    SubSeq(line, 1, start) \o text \o SubSeq(line, end + 1, Len(line))

\* SteamConfig::set_proton_version and LutrisConfig::set_wine_version: the value
\* span of the recorded line is replaced, the line is spliced into the lines.
\* The recorded span is left as it was read; replace_range panics on a span
\* that ends beyond the line.
set_version(config, dir_name) ==
    IF config.end > Len(config.line) THEN [config EXCEPT !.status = "panic"]
    ELSE
    LET line == replace_range(config.line, config.start, config.end, dir_name)
    IN [config EXCEPT !.line = line, !.lines = [config.lines EXCEPT ![config.idx + 1] = line]]

\* SteamConfig::proton_version and LutrisConfig::wine_version
version_of(config) == SubSeq(config.line, config.start + 1, config.end)

\* Into<Vec<u8>>: lines.join("\n")
into_bytes(config) == join(config.lines, <<"\n">>)

create_copy(kind, file) ==
    IF kind = "Proton" THEN SteamConfig_create_copy(file) ELSE LutrisConfig_create_copy(file)

LUTRIS_INITIAL_PREFIX == <<"\n", "w", "i", "n", "e", ":", "\n", " ", " ", "v", "e", "r", "s", "i", "o", "n", ":", " ">>

\* The initial text with its placeholder left in place.
LutrisInitialConfig_unreplaced(dir_name) ==
    LUTRIS_INITIAL_PREFIX \o <<"V", "E", "R", "S", "I", "O", "N">> \o <<"\n">>

\* LUTRIS_INITIAL_WINE_RUNNER_CONFIG.replace("VERSION", directory_name)
LutrisInitialConfig(dir_name) == LUTRIS_INITIAL_PREFIX \o dir_name \o <<"\n">>

----------------------------------------------------------------------------
(* FsMng::apply_to_app_config (src/src/filesystem.rs) on the host config   *)
(* of one tool kind: the copy to the backup path is one step, the read,    *)
(* patch and rewrite of the config the next.                               *)

\* Bound of the config model: the number of applies run.
MaxApplies == 3

SteamFileLf ==
    <<"C", "o", "m", "p", "a", "t", "T", "o", "o", "l", "M", "a", "p", "p", "i", "n", "g", "\n", "\"", "0", "\"", "\n", "{", "\n", "\t", "\"", "n", "a", "m", "e", "\"", "\t", "\"", "o", "l", "d", "\"", " ", "x", "\n", "}", "\n">>
SteamFileBare ==
    <<"C", "o", "m", "p", "a", "t", "T", "o", "o", "l", "M", "a", "p", "p", "i", "n", "g", "\n", "\"", "0", "\"", "\n", "{", "\n", "\t", "\"", "n", "a", "m", "e", "\"", "\t", "\"", "o", "l", "d", "\"", " ", "x", "\n", "}">>
SteamFileCrLf ==
    <<"C", "o", "m", "p", "a", "t", "T", "o", "o", "l", "M", "a", "p", "p", "i", "n", "g", "\r", "\n", "\"", "0", "\"", "\r", "\n", "{", "\r", "\n", "\t", "\"", "n", "a", "m", "e", "\"", "\t", "\"", "o", "l", "d", "\"", " ", "x", "\r", "\n", "}", "\r", "\n">>
SteamFileNoAttr ==
    <<"\"", "0", "\"", "\n", "{", "\n", "\t", "\"", "n", "a", "m", "e", "\"", "\t", "\"", "o", "l", "d", "\"", "\n", "}", "\n">>
SteamFileShort ==
    <<"C", "o", "m", "p", "a", "t", "T", "o", "o", "l", "M", "a", "p", "p", "i", "n", "g", "\n", "\"", "0", "\"", "\n", "{", "\n">>
LutrisFileLf ==
    <<"w", "i", "n", "e", ":", "\n", " ", " ", "v", "e", "r", "s", "i", "o", "n", ":", " ", "o", "l", "d", "\n">>
LutrisFileBare ==
    <<"w", "i", "n", "e", ":", "\n", " ", " ", "v", "e", "r", "s", "i", "o", "n", ":", " ", "o", "l", "d">>
LutrisFileNoAttr ==
    <<"w", "i", "n", "e", ":", "\n">>
LutrisFileNoColon ==
    <<"v", "e", "r", "s", "i", "o", "n", "=", "o", "l", "d", "\n">>

SteamFiles == {SteamFileLf, SteamFileBare, SteamFileCrLf, SteamFileNoAttr, SteamFileShort}
LutrisFiles == {LutrisFileLf, LutrisFileBare, LutrisFileNoAttr, LutrisFileNoColon}

NewName == <<"n", "e", "w">>
DirNames == {OldName, NewName}

\* fs::write(path, bytes): the file holds the bytes, or the call fails before it
\* opens the file, or it fails or is interrupted after it truncated the file.
fs_write(file, bytes, outcome) ==
    IF outcome = "ok" THEN {Some(bytes)}
    ELSE IF outcome = "unopened" THEN {file}
    ELSE {Some(<<>>), Some(SubSeq(bytes, 1, Len(bytes) \div 2))}

\* A backup step that copies nothing.
apply_backup_skipped(config, backup, copy) ==
    IF config = None THEN [status |-> "notfound", backup |-> backup]
    ELSE IF copy = "fail" THEN [status |-> "err", backup |-> backup]
    ELSE [status |-> "ok", backup |-> backup]

\* fs::copy(config path, backup path) at the head of apply_to_app_config.
apply_backup(config, backup, copy) ==
    IF config = None THEN [status |-> "notfound", backup |-> backup]
    ELSE IF copy = "fail" THEN [status |-> "err", backup |-> backup]
    ELSE [status |-> "ok", backup |-> config]

\* A content create_copy reads as a config.
ValidConfig(kind, bytes) == create_copy(kind, Some(bytes)).status = "ok"

\* The backup step.  A missing Lutris runner config is created from the initial
\* text; a missing Steam config, or any other failure of the copy, is an error.
ApplyBackup ==
    /\ cpc = "idle"
    /\ napply < MaxApplies
    /\ \E dir \in DirNames, copy \in IF cfgFile = None THEN {"ok"} ELSE {"ok", "fail"} :
         LET b == apply_backup(cfgFile, bakFile, copy)
         IN /\ ccmd' = dir
            /\ cpre' = cfgFile
            /\ bakFile' = b.backup
            /\ napply' = napply + 1
            /\ IF b.status = "ok"
               THEN /\ cpc' = "backed"
                    /\ cres' = "none"
                    /\ UNCHANGED <<cfgFile, cgood>>
               ELSE IF b.status = "notfound" /\ ckind = "Wine"
               THEN \E outcome \in {"ok", "unopened", "torn"} :
                      /\ cfgFile' \in fs_write(cfgFile, LutrisInitialConfig(dir), outcome)
                      /\ cres' = IF outcome = "ok" THEN "ok" ELSE "err"
                      /\ cgood' = IF outcome = "ok" THEN cgood \cup {LutrisInitialConfig(dir)}
                                  ELSE cgood
                      /\ cpc' = "done"
               ELSE /\ cres' = "err"
                    /\ cpc' = "done"
                    /\ UNCHANGED <<cfgFile, cgood>>
    /\ UNCHANGED <<ckind, regVars, scanVars, libVars>>

\* create_copy, set_*_version, into and fs::write of the config.
ApplyWrite ==
    /\ cpc = "backed"
    /\ LET config == create_copy(ckind, cfgFile)
       IN IF config.status # "ok"
          THEN /\ cres' = IF config.status = "panic" THEN "panic" ELSE "err"
               /\ UNCHANGED <<cfgFile, cgood>>
          ELSE LET new_config == into_bytes(set_version(config, ccmd))
               IN \E outcome \in {"ok", "unopened", "torn"} :
                    /\ cfgFile' \in fs_write(cfgFile, new_config, outcome)
                    /\ cres' = IF outcome = "ok" THEN "ok" ELSE "err"
                    /\ cgood' = IF outcome = "ok" THEN cgood \cup {new_config} ELSE cgood
    /\ cpc' = "done"
    /\ UNCHANGED <<ckind, bakFile, ccmd, cpre, napply, regVars, scanVars, libVars>>

\* The command ends.
ApplyExit ==
    /\ cpc = "done"
    /\ cpc' = "idle"
    /\ ccmd' = <<>>
    /\ cpre' = None
    /\ cres' = "none"
    /\ UNCHANGED <<ckind, cfgFile, bakFile, cgood, napply, regVars, scanVars, libVars>>

CfgInit ==
    /\ ckind \in CmdKinds
    /\ cfgFile \in {None} \cup {Some(f) : f \in IF ckind = "Proton" THEN SteamFiles ELSE LutrisFiles}
    /\ bakFile = None
    /\ cpc = "idle"
    /\ ccmd = <<>>
    /\ cpre = None
    /\ cgood = IF cfgFile # None /\ ValidConfig(ckind, cfgFile[1]) THEN {cfgFile[1]} ELSE {}
    /\ cres = "none"
    /\ napply = 0

CfgNext ==
    \/ ApplyBackup
    \/ ApplyWrite
    \/ ApplyExit

\* The registry as the config model leaves it: no command runs.
RegIdle == RegInit

----------------------------------------------------------------------------
(* Properties of the host config patch.                                    *)

\* The line ending a raw line carries.
Terminator(raw) == SubSeq(raw, Len(StripEol(raw)) + 1, Len(raw))

RECURSIVE Concat(_)
Concat(pieces) == IF pieces = <<>> THEN <<>> ELSE Head(pieces) \o Concat(Tail(pieces))

\* The file with the recorded value span of the recorded line replaced and every
\* other byte, line endings included, as it was.
ExpectedPatch(kind, bytes, dir_name) ==
    LET config == create_copy(kind, Some(bytes))
        raw == RawLines(bytes)
    IN Concat([i \in 1..Len(raw) |->
                 IF i = config.idx + 1
                 THEN replace_range(config.line, config.start, config.end, dir_name)
                      \o Terminator(raw[i])
                 ELSE raw[i]])

\* C5: a successful apply to an existing config file changes only the recorded
\* value span of the recorded line; every other byte of the rewritten file,
\* line endings included, is the byte the file had before.
C5_OnlyValueSpanChanges ==
    [][(cpc = "backed" /\ cres' = "ok") =>
          cfgFile' = Some(ExpectedPatch(ckind, cfgFile[1], ccmd))]_vars

\* C6: the config file is modified only when the backup already holds its
\* content, and after an apply that rewrote an existing config the backup holds
\* the content the config had before the write.
C6_BackupBeforeWrite ==
    [][/\ (cfgFile # None /\ cfgFile' # cfgFile) => (bakFile = cfgFile /\ bakFile' = bakFile)
       /\ (cpc' = "done" /\ cres' = "ok" /\ cpre' # None) => (bakFile' = cpre')]_vars

\* A second apply rewrote the config and the backup holds what the config held before.
C6_Witness ==
    /\ cpc = "done"
    /\ cres = "ok"
    /\ napply >= 2
    /\ cpre # None
    /\ cfgFile # cpre
    /\ bakFile = cpre

\* C7: whatever writes failed or were interrupted, the backup holds a complete
\* content that the config file held as a valid config at some earlier time.
C7_BackupIsLastKnownGood ==
    (bakFile # None /\ cgood # {}) => (bakFile[1] \in cgood)

\* The lines of the file that are not empty.
NonEmptyLines(bytes) ==
    LET NonEmpty(l) == l # <<>>
    IN SelectSeq(lines(bytes), NonEmpty)

\* C20: an apply of a Wine version that finds no Lutris runner config creates
\* one instead of failing: the file holds only the "wine:" section with the
\* version attribute set to the directory name, a read of it reports that
\* directory name, and no backup is made; the apply ends in an error only when
\* the file could not be written.
C20_MissingLutrisConfigCreated ==
    (cpc = "done" /\ ckind = "Wine" /\ cpre = None) =>
        /\ cres \in {"ok", "err"}
        /\ bakFile = None
        /\ (cres = "ok") <=>
              /\ cfgFile # None
              /\ create_copy("Wine", cfgFile).status = "ok"
              /\ version_of(create_copy("Wine", cfgFile)) = ccmd
        /\ (cres = "ok") =>
              NonEmptyLines(cfgFile[1]) =
                 << <<"w", "i", "n", "e", ":">>,
                    <<" ", " ">> \o WINE_VERSION_ATTRIBUTE \o <<":", " ">> \o ccmd >>

\* An apply found no Lutris runner config and created one that names the version.
C20_Witness ==
    /\ cpc = "done"
    /\ ckind = "Wine"
    /\ cpre = None
    /\ cres = "ok"
    /\ ccmd = NewName
    /\ cfgFile # None
    /\ version_of(create_copy("Wine", cfgFile)) = NewName

----------------------------------------------------------------------------
(* The paginated tag scan (gehelper-lib/src/download/mod.rs).              *)

\* The greatest value of the page counter's type.
U8_MAX == 255

\* Bound of the scan model: the longest of the short runs of pages without a candidate.
MaxShortFiller == 2

WineTagKinds == {"WineGe", "LolWineGe"}

LOL == <<"L", "o", "L">>

\* The first pages a listing serves.
PageLists ==
    { <<>>,
      << <<TagWine71, TagWine72, TagLol71, TagLol70>> >>,
      << <<TagLol71>>, <<TagWine72, TagWine71>> >>,
      << <<TagWine71>>, <<TagLol70, TagLol71>> >>,
      << <<TagWineRc, TagWine71>> >> }

\* A listing serves its first pages, then `filler` pages that hold one tag of the
\* other sub-variant, then empty pages.  zero is what it serves for page 0.
Listings ==
    [pages : PageLists, filler : (0..MaxShortFiller) \cup {U8_MAX}, zero : {"first", "empty"}]

RECURSIVE PageOf(_, _, _)
PageOf(l, kind, p) ==
    IF p = 0 THEN (IF l.zero = "first" THEN PageOf(l, kind, 1) ELSE <<>>)
    ELSE IF p <= Len(l.pages) THEN l.pages[p]
    ELSE IF p <= Len(l.pages) + l.filler
         THEN <<IF kind = "LolWineGe" THEN TagWine71 ELSE TagLol71>>
    ELSE <<>>

NoResult == [kind |-> "none", tag |-> <<>>]

\* tags.retain: the tags of the sub-variant
retain(tags, kind) ==
    LET Keep(t) == IF kind = "LolWineGe" THEN Contains(t, LOL) ELSE ~Contains(t, LOL)
    IN SelectSeq(tags, Keep)

\* One pass of the loop of find_latest_wine_ge_release_tag over a fetched page:
\* "empty" (Err(NoTags)), "panic" (Tag::from panics on a retained tag), "found"
\* with the latest tag, or "next".
scan_page(tags, kind) ==
    IF tags = <<>> THEN [status |-> "empty", tag |-> <<>>]
    ELSE
    LET retained == retain(tags, kind)
        HasSemver(t) == Tag_new(t).semver # None
    IN IF \E i \in 1..Len(retained) : Tag_new(retained[i]).panics
       THEN [status |-> "panic", tag |-> <<>>]
       ELSE LET with_semver == SelectSeq(retained, HasSemver)
                latest_tag == max_by(with_semver)
            IN IF latest_tag # 0 THEN [status |-> "found", tag |-> with_semver[latest_tag]]
               ELSE [status |-> "next", tag |-> <<>>]

\* page += 1 on a u8: past U8_MAX the addition panics in a build with overflow
\* checks and wraps in a build without.
next_page(p) ==
    IF p = U8_MAX THEN {[panics |-> TRUE, page |-> p], [panics |-> FALSE, page |-> (p + 1) % (U8_MAX + 1)]}
    ELSE {[panics |-> FALSE, page |-> p + 1]}

\* find_latest_wine_ge_release_tag is called: let mut page = 1
ScanStart ==
    /\ spc = "idle"
    /\ \E kind \in WineTagKinds : wkind' = kind
    /\ page' = 1
    /\ spc' = "loop"
    /\ sres' = NoResult
    /\ UNCHANGED <<listing, regVars, cfgVars, libVars>>

\* One iteration of the loop: fetch the page, return or advance.
ScanStep ==
    /\ spc = "loop"
    /\ LET r == scan_page(PageOf(listing, wkind, page), wkind)
       IN IF r.status = "empty"
          THEN spc' = "done" /\ sres' = [kind |-> "NoTags", tag |-> <<>>] /\ page' = page
          ELSE IF r.status = "panic"
          THEN spc' = "panic" /\ sres' = [kind |-> "unparsable", tag |-> <<>>] /\ page' = page
          ELSE IF r.status = "found"
          THEN spc' = "done" /\ sres' = [kind |-> "tag", tag |-> r.tag] /\ page' = page
          ELSE \E n \in next_page(page) :
                 IF n.panics
                 THEN spc' = "panic" /\ sres' = [kind |-> "overflow", tag |-> <<>>] /\ page' = page
                 ELSE spc' = "loop" /\ sres' = sres /\ page' = n.page
    /\ UNCHANGED <<listing, wkind, regVars, cfgVars, libVars>>

\* The call has returned; the next call starts its own scan.
ScanReturn ==
    /\ spc = "done"
    /\ spc' = "idle"
    /\ UNCHANGED <<listing, wkind, page, sres, regVars, cfgVars, libVars>>

ScanInit ==
    /\ listing \in Listings
    /\ wkind = "WineGe"
    /\ page = 1
    /\ spc = "idle"
    /\ sres = NoResult

ScanNext ==
    \/ ScanStart
    \/ ScanStep
    \/ ScanReturn

----------------------------------------------------------------------------
(* Properties of the paginated tag scan.                                   *)

\* The page holds a tag of the sub-variant whose semver derives.
HasCandidate(l, kind, p) ==
    \E i \in 1..Len(retain(PageOf(l, kind, p), kind)) :
        ~Tag_new(retain(PageOf(l, kind, p), kind)[i]).panics

\* The derived semver of the tag is maximal among the sub-variant's tags of the
\* page whose semver derives.
IsLatestOf(t, l, kind, p) ==
    LET cands == retain(PageOf(l, kind, p), kind)
    IN /\ \E i \in 1..Len(cands) : cands[i] = t
       /\ ~Tag_new(t).panics
       /\ \A i \in 1..Len(cands) :
             Tag_new(cands[i]).panics
             \/ StrCmp(Tag_new(cands[i]).semver[1], Tag_new(t).semver[1]) <= 0

\* C9: the lookup requests a page only when every page before it was non-empty
\* and held no tag of the sub-variant, and on the first page that holds such a
\* tag it returns the one whose derived semver is maximal.
C9_LatestOfFirstCandidatePage ==
    (spc # "idle") =>
       /\ \A q \in 1..(page - 1) :
             PageOf(listing, wkind, q) # <<>> /\ ~HasCandidate(listing, wkind, q)
       /\ (spc # "loop" /\ HasCandidate(listing, wkind, page)) =>
             (sres.kind = "tag" /\ IsLatestOf(sres.tag, listing, wkind, page))

\* Every tag the listing serves has a derivable semver.
AllParse(l) ==
    \A p \in 1..Len(l.pages) : \A i \in 1..Len(l.pages[p]) : ~Tag_new(l.pages[p][i]).panics

\* C10: on a listing that serves an empty page after its non-empty ones, a scan
\* that has started returns, with a tag or with the "no tags" error, however
\* many pages without a candidate come first.
C10_ScanTerminates ==
    (spc = "loop" /\ AllParse(listing)) ~> (spc = "done")

----------------------------------------------------------------------------
(* Tag construction and comparison as operations (gehelper-lib/src/tag.rs). *)

\* Bound of the tag model: the number of pieces a raw tag is put together from.
MaxPieces == 5

TagPieces == { <<"1">>, <<"9">>, <<"1", "0">>, <<".">>, RELEASE_CANDIDATE_MARKER, LOL }

\* The raw tags of the model: every text of at most MaxPieces pieces, the empty
\* text included.
RawTags == {Concat(ps) : ps \in UNION {[1..n -> TagPieces] : n \in 0..MaxPieces}}

\* The tags a constructed tag is compared with.
OtherTags ==
    { <<"9">>, <<"1", "0">>, <<"1", ".", "9">>, <<"1", ".", "1", "0">>, <<"9", "L", "o", "L">> }

NoTag == [value |-> <<>>, semver |-> None]

\* Tag::new(git_tag): derives the semver; the derivation may panic.
TagNew ==
    /\ tpc = "idle"
    /\ LET derived == from_git_tag(tagRaw)
       IN /\ tagObj' = [value |-> tagRaw, semver |-> derived.semver]
          /\ tpc' = IF derived.panics THEN "panic" ELSE "new"
    /\ UNCHANGED <<tagRaw, tagOther, tord, sumVars, dlVars, extVars, regVars, cfgVars, scanVars>>

\* Tag::compare_semver(&tag, &Tag::new(o))
TagCompare ==
    /\ tpc = "new"
    /\ \E o \in OtherTags :
         LET b == [value |-> o, semver |-> from_git_tag(o).semver]
         IN /\ tagOther' = b
            /\ tord' = Tag_compare_semver(tagObj, b)
    /\ tpc' = "cmp"
    /\ UNCHANGED <<tagRaw, tagObj, sumVars, dlVars, extVars, regVars, cfgVars, scanVars>>

TagInit ==
    /\ tagRaw \in RawTags
    /\ tagObj = NoTag
    /\ tagOther = NoTag
    /\ tord = 0
    /\ tpc = "idle"

TagNext ==
    \/ TagNew
    \/ TagCompare

----------------------------------------------------------------------------
(* Properties of the tag / semver engine.                                  *)

\* The digit-runs of the tag that "rc" immediately precedes.
RcRuns(s) ==
    {i \in 1..Len(NUMBERS(s)) :
        LET c == NUMBERS(s)[i]
        IN c.start >= 3 /\ s[c.start - 2] = "r" /\ s[c.start - 1] = "c"}

\* The sequence without its i-th element.
Without(seq, i) == [j \in 1..(Len(seq) - 1) |-> IF j < i THEN seq[j] ELSE seq[j + 1]]

\* The texts joined with ".".
RECURSIVE DotJoin(_)
DotJoin(texts) ==
    IF texts = <<>> THEN <<>>
    ELSE IF Len(texts) = 1 THEN texts[1]
    ELSE texts[1] \o <<".">> \o DotJoin(Tail(texts))

\* The digit-runs as components, with "0" appended while there are fewer than three.
Padded(caps) ==
    [j \in 1..(IF Len(caps) < 3 THEN 3 ELSE Len(caps)) |->
        IF j <= Len(caps) THEN caps[j].text ELSE <<"0">>]

\* C11: for a tag that contains rc<N>, the derived semver ends with -rc<N>, N
\* being a digit-run that "rc" immediately precedes, and its main components
\* are all the other digit-runs of the tag in their original order.
C11_RcSuffix ==
    (tpc # "idle" /\ RcRuns(tagRaw) # {}) =>
        /\ tpc # "panic"
        /\ \E i \in RcRuns(tagRaw) :
              tagObj.semver = Some(DotJoin(Padded(Without(NUMBERS(tagRaw), i)))
                                \o <<"-", "r", "c">> \o NUMBERS(tagRaw)[i].text)

\* The text before the first "-".
MainPart(s) == IF Contains(s, <<"-">>) THEN SubSeq(s, 1, Find(s, <<"-">>) - 1) ELSE s

\* str::split('.'): the pieces between the dots.
RECURSIVE SplitDots(_)
SplitDots(s) ==
    IF ~Contains(s, <<".">>) THEN <<s>>
    ELSE <<SubSeq(s, 1, Find(s, <<".">>) - 1)>> \o SplitDots(SubSeq(s, Find(s, <<".">>) + 1, Len(s)))

\* C12: for a raw tag with at most three digit-runs, the empty text included,
\* the derivation completes without crashing and the main part of the semver
\* is exactly three dot-separated integers: the digit-runs in their original
\* order (without the release-candidate number), padded on the right with zeros.
C12_ThreeComponents ==
    (tpc # "idle" /\ Len(NUMBERS(tagRaw)) <= 3) =>
        /\ tpc # "panic"
        /\ tagObj.semver # None
        /\ LET comps == SplitDots(MainPart(tagObj.semver[1]))
               caps == NUMBERS(tagRaw)
           IN /\ Len(comps) = 3
              /\ \A j \in 1..3 : ParseUsize(comps[j]) # None
              /\ IF Contains(tagRaw, RELEASE_CANDIDATE_MARKER)
                 THEN \E i \in 1..Len(caps) : comps = Padded(Without(caps, i))
                 ELSE comps = Padded(caps)

\* Lexicographic order of two texts, stated on positions: -1, 0 or 1.
LexLess(a, b) ==
    \E k \in 0..Len(a) :
        /\ k <= Len(b)
        /\ \A j \in 1..k : a[j] = b[j]
        /\ \/ k = Len(a) /\ k < Len(b)
           \/ k < Len(a) /\ k < Len(b) /\ Code(a[k + 1]) < Code(b[k + 1])

LexOrder(a, b) == IF a = b THEN 0 ELSE IF LexLess(a, b) THEN -1 ELSE 1

\* C13: for tags with a derivable semver, compare_semver is the plain
\* lexicographic comparison of the derived semver texts; the tag "9" (semver
\* 9.0.0) orders after the tag "10" (semver 10.0.0).
C13_LexicographicCompare ==
    (tpc = "cmp" /\ tagObj.semver # None /\ tagOther.semver # None) =>
        /\ tord = LexOrder(tagObj.semver[1], tagOther.semver[1])
        /\ (tagObj.semver[1] = <<"9", ".", "0", ".", "0">>
            /\ tagOther.semver[1] = <<"1", "0", ".", "0", ".", "0">>) => tord = 1

\* The tag 9 was compared with the tag 10 and came out greater.
C13_Witness ==
    /\ tpc = "cmp"
    /\ tagObj.value = <<"9">>
    /\ tagOther.value = <<"1", "0">>
    /\ tagObj.semver = Some(<<"9", ".", "0", ".", "0">>)
    /\ tord = 1

----------------------------------------------------------------------------
(* Properties of the latest lookup and of clean.                           *)

\* The derived semver of a managed version's tag.
SemverOf(v) == Tag_new(v.tag).semver[1]

\* The version is of the kind and no version of the kind has a greater semver.
IsMaximalOfKind(v, versions, kind) ==
    /\ v.kind = kind
    /\ \E i \in 1..Len(versions) : versions[i] = v
    /\ \A j \in 1..Len(versions) :
          (versions[j].kind = kind) => LexOrder(SemverOf(versions[j]), SemverOf(v)) <= 0

\* C14: the latest lookup returns a managed version of the kind whose semver is
\* maximal among the managed versions of the kind, and nothing exactly when the
\* registry holds no version of the kind; `apply` without a tag applies it.
C14_LatestByKind ==
    /\ \A kind \in CmdKinds :
          LET r == find_latest_by_kind(persisted.versions, kind)
          IN /\ (r = None) <=> (\A i \in 1..Len(persisted.versions) :
                                    persisted.versions[i].kind # kind)
             /\ (r # None) => IsMaximalOfKind(r[1], persisted.versions, kind)
    /\ (pc = "done" /\ cmd.name = "apply" /\ cmd.tag = None) =>
          /\ (res = "ok") =>
                \E i \in 1..Len(mem) :
                   /\ IsMaximalOfKind(mem[i], mem, cmd.kind)
                   /\ active[application_name(cmd.kind)] = Some(mem[i].directory_name)
          /\ (\A i \in 1..Len(mem) : mem[i].kind # cmd.kind) => (res = "err")

\* `apply` without a tag applied 6.9 from a registry that also holds 6.10 of the kind.
C14_Witness ==
    /\ pc = "done"
    /\ cmd.name = "apply"
    /\ cmd.tag = None
    /\ res = "ok"
    /\ \E i, j \in 1..Len(mem) :
          /\ mem[i].kind = cmd.kind /\ mem[i].tag = TagA
          /\ mem[j].kind = cmd.kind /\ mem[j].tag = TagB
          /\ active[application_name(cmd.kind)] = Some(mem[i].directory_name)

\* The cutoff of the clean selects the version: same kind, semver strictly before.
Selected(c, v) ==
    /\ v.kind = c.kind
    /\ LexOrder(SemverOf(v), Tag_new(c.tag[1]).semver[1]) = -1

\* The removal of the version fails: it is in use, or its directory is missing
\* or cannot be removed.
RemovalFails(c, v) ==
    \/ InUse(v)
    \/ /\ ~c.forget
       /\ \/ <<application_name(v.kind), v.directory_name>> \notin toolDir
          \/ v.directory_name \in c.failDirs

C16_CleanSkipsFailures ==
    [][(pc = "idle" /\ cmd'.name = "clean" /\ active[application_name(cmd'.kind)] # None) =>
          /\ res' = "ok"
          /\ \A i \in 1..Len(persisted.versions) :
                LET v == persisted.versions[i]
                    kept == \E j \in 1..Len(mem') : mem'[j] = v
                    listed == \E j \in 1..Len(removed') : removed'[j] = v
                IN Selected(cmd', v) =>
                      IF RemovalFails(cmd', v) THEN kept /\ ~listed ELSE ~kept /\ listed]_vars

\* A clean selected two versions; the removal of one failed and the other was removed.
C16_Witness ==
    /\ pc \in {"save", "done"}
    /\ cmd.name = "clean"
    /\ res = "ok"
    /\ Len(removed) = 1
    /\ \E j \in 1..Len(mem) :
          /\ Selected(cmd, mem[j])
          /\ mem[j].directory_name \in cmd.failDirs

\* C17: adding a version whose (tag, kind) is already managed is an
\* informational outcome: the handler returns success whatever the downloader
\* would answer (it is not asked), nothing is extracted, no directory is
\* created, and the registry, in memory and after the save, is the one the
\* command found.
C17_DuplicateAddInformational ==
    [][/\ (pc = "idle" /\ DuplicateAdd(cmd')) =>
             /\ res' = "ok"
             /\ mem' = persisted.versions
             /\ unpacked' = unpacked
             /\ toolDir' = toolDir
             /\ \A a \in AssetsAnswers(cmd'.kind, cmd'.skip) :
                   add([cmd' EXCEPT !.assets = a], persisted.versions, toolDir, unpacked)
                      = Out("ok", "already_managed", persisted.versions, toolDir, unpacked, <<>>)
       /\ (pc = "save" /\ DuplicateAdd(cmd) /\ persisted'.ok) => persisted' = persisted]_vars

\* A second add of a managed version returned success and left the registry alone.
C17_Witness ==
    /\ pc = "save"
    /\ cmd.name = "add"
    /\ DuplicateAdd(cmd)
    /\ res = "ok"
    /\ mem = persisted.versions
    /\ Len(mem) >= 1

----------------------------------------------------------------------------
(* Checksum verification as an operation (gehelper-lib/src/archive.rs).    *)

\* Bound of the checksum model: the number of pieces a checksum text is put
\* together from.
MaxSumPieces == 3

\* The digests of the two archives, an upper-case digest, white space and a
\* file name.
SumPieces == { <<"1", "f">>, <<"2", "e">>, <<"1", "F">>, <<" ">>, <<"\n">>, <<"x">> }

SumTexts == {Concat(ps) : ps \in UNION {[1..n -> SumPieces] : n \in 0..MaxSumPieces}}

\* archive::checksums_match(&compressed_tar, expected_sum)
SumVerify ==
    /\ sumRes = "none"
    /\ sumRes' = checksums_match(sumTar, sumText)
    /\ UNCHANGED <<sumTar, sumText, tagVars, dlVars, extVars, regVars, cfgVars, scanVars>>

SumInit ==
    /\ sumTar \in {ArchiveGz.bytes, ArchiveXz.bytes}
    /\ sumText \in SumTexts
    /\ sumRes = "none"

SumNext == SumVerify

\* The first white-space delimited token of the text is tok, stated on positions.
FirstTokenIs(text, tok) ==
    /\ tok # <<>>
    /\ \E i \in 1..Len(text) :
          /\ \A j \in 1..(i - 1) : IsWhitespace(text[j])
          /\ StartsAt(text, tok, i)
          /\ i + Len(tok) > Len(text) \/ IsWhitespace(text[i + Len(tok)])

\* C18: the verification succeeds exactly when the first white-space delimited
\* token of the checksum text is the lower-case hex digest of the archive,
\* whether or not a file name follows the digest.
C18_FirstTokenDecides ==
    (sumRes # "none") =>
        ((sumRes = "match") <=> FirstTokenIs(sumText, HexSha512(sumTar)))

\* A checksum text with a file name after the digest was verified.
C18_Witness ==
    /\ sumRes = "match"
    /\ sumText = HexSha512(sumTar) \o <<" ", "x">>

----------------------------------------------------------------------------
(* The release download (gehelper-lib/src/download).                       *)

APPLICATION_GZIP == "application/gzip"
APPLICATION_OCTET_STREAM == "application/octet-stream"
APPLICATION_XZ == "application/x-xz"
TEXT_PLAIN == "text/plain"

\* Bound of the download model: the number of assets a release lists.
MaxAssets == 3

ContentTypes == {APPLICATION_GZIP, APPLICATION_OCTET_STREAM, APPLICATION_XZ, TEXT_PLAIN}

\* The asset lists of a release, each asset by its content type.
AssetLists == UNION {[1..n -> ContentTypes] : n \in 0..MaxAssets}

\* GeRelease::is_checksum_asset / is_tar_asset
is_checksum_asset(asset) == asset = APPLICATION_OCTET_STREAM
is_tar_asset(asset) == asset = APPLICATION_GZIP \/ asset = APPLICATION_XZ

\* GeRelease::checksum_asset / tar_asset: Iterator::find, then unwrap; None
\* stands for the unwrap that panics.
checksum_asset(assets) ==
    LET hits == {i \in 1..Len(assets) : is_checksum_asset(assets[i])}
    IN IF hits = {} THEN None ELSE Some(CHOOSE i \in hits : \A j \in hits : i <= j)

tar_asset(assets) ==
    LET hits == {i \in 1..Len(assets) : is_tar_asset(assets[i])}
    IN IF hits = {} THEN None ELSE Some(CHOOSE i \in hits : \A j \in hits : i <= j)

\* download_checksum / download_tar of a found asset: the request fails (Err),
\* or the response carries no content length (unwrap panics), or it succeeds.
download_asset(answer) ==
    IF answer = "err" THEN "err" ELSE IF answer = "nolen" THEN "panic" ELSE "ok"

DlOut(status, note) == [status |-> status, note |-> note]

\* GeDownloader::download_release
download_release(req, remote) ==
    IF remote.release = None THEN DlOut("err", "fetch")
    ELSE
    LET assets == remote.release[1]
    IN IF assets = <<>> THEN DlOut("err", "ReleaseHasNoAssets")
       ELSE
       LET checksum ==
               IF req.skip_checksum THEN "ok"
               ELSE IF checksum_asset(assets) = None THEN "panic"
               ELSE download_asset(remote.checksum)
       IN IF checksum # "ok" THEN DlOut(checksum, "checksum")
          ELSE
          LET tar == IF tar_asset(assets) = None THEN "panic" ELSE download_asset(remote.tar)
          IN IF tar # "ok" THEN DlOut(tar, "tar") ELSE DlOut("ok", "assets")

NoDownload == DlOut("none", "none")

DownloadRelease ==
    /\ dpc = "idle"
    /\ dres' = download_release(request, net)
    /\ dpc' = "done"
    /\ UNCHANGED <<request, net, tagVars, sumVars, extVars, regVars, cfgVars, scanVars>>

DlInit ==
    /\ request \in [skip_checksum : BOOLEAN]
    /\ net \in [release : {None} \cup {Some(a) : a \in AssetLists},
                 checksum : {"ok", "err", "nolen"},
                 tar : {"ok", "err", "nolen"}]
    /\ dpc = "idle"
    /\ dres = NoDownload

DlNext == DownloadRelease

\* The release lists assets but lacks one the request needs.
LacksRequiredAsset(req, remote) ==
    /\ remote.release # None
    /\ remote.release[1] # <<>>
    /\ \/ \A i \in 1..Len(remote.release[1]) : ~is_tar_asset(remote.release[1][i])
       \/ /\ ~req.skip_checksum
          /\ \A i \in 1..Len(remote.release[1]) : ~is_checksum_asset(remote.release[1][i])

\* C19: downloading a release whose asset list is not empty but lacks an
\* archive asset, or lacks a checksum asset while the checksum is not skipped,
\* returns an error to the caller.
C19_MissingAssetIsError ==
    (dpc = "done" /\ LacksRequiredAsset(request, net)) => dres.status = "err"

----------------------------------------------------------------------------
(* The registry file as a document (src/src/data.rs): serde_json writes    *)
(* the collection as JSON text and reads it back from the text.  A stored  *)
(* version is [tag |-> [value, semver], kind |-> [type, kind],             *)
(* directory_name], as the structs of data.rs and tag.rs declare it.       *)

\* Bound: the number of versions of a written collection.
MaxStored == 2

Quote == "\""
Backslash == "\\"

\* A JSON string body without the escapes.
escape_none(s) == s

\* serde_json's string escapes: quote, backslash and line feed.
RECURSIVE escape(_)
escape(s) ==
    IF s = <<>> THEN <<>>
    ELSE (IF s[1] = Quote THEN <<Backslash, Quote>>
          ELSE IF s[1] = Backslash THEN <<Backslash, Backslash>>
          ELSE IF s[1] = "\n" THEN <<Backslash, "n">>
          ELSE <<s[1]>>) \o escape(Tail(s))

RECURSIVE unescape(_)
unescape(s) ==
    IF s = <<>> THEN <<>>
    ELSE IF s[1] = Backslash /\ Len(s) >= 2
    THEN (IF s[2] = "n" THEN <<"\n">> ELSE <<s[2]>>) \o unescape(SubSeq(s, 3, Len(s)))
    ELSE <<s[1]>> \o unescape(Tail(s))

JsonString(s) == <<Quote>> \o escape(s) \o <<Quote>>

\* "key":
JsonKey(name) == JsonString(name) \o <<":">>

K_type == <<"t", "y", "p", "e">>
K_tag == <<"t", "a", "g">>
K_kind == <<"k", "i", "n", "d">>
K_value == <<"v", "a", "l", "u", "e">>
K_semver == <<"s", "e", "m", "v", "e", "r">>
K_directory_name == <<"d", "i", "r", "e", "c", "t", "o", "r", "y", "_", "n", "a", "m", "e">>
K_versions == <<"v", "e", "r", "s", "i", "o", "n", "s">>
N_ManagedVersion == <<"M", "a", "n", "a", "g", "e", "d", "V", "e", "r", "s", "i", "o", "n">>
N_Proton == <<"P", "r", "o", "t", "o", "n">>
N_Wine == <<"W", "i", "n", "e">>
N_WineGe == <<"W", "i", "n", "e", "G", "e">>
N_LolWineGe == <<"L", "o", "l", "W", "i", "n", "e", "G", "e">>
JSON_NULL == <<"n", "u", "l", "l">>

\* The TagKind values: Proton, Wine { kind: WineGe }, Wine { kind: LolWineGe }.
KindProton == [type |-> N_Proton, kind |-> <<>>]
KindWine(wine_kind) == [type |-> N_Wine, kind |-> wine_kind]
TagKinds == {KindProton, KindWine(N_WineGe), KindWine(N_LolWineGe)}

\* derive(Serialize) for Tag
Ser_Tag(tag) ==
    <<"{">> \o JsonKey(K_value) \o JsonString(tag.value) \o <<",">>
    \o JsonKey(K_semver) \o (IF tag.semver = None THEN JSON_NULL ELSE JsonString(tag.semver[1]))
    \o <<"}">>

\* A TagKind written without the sub-variant of Wine.
Ser_TagKind_flat(kind) ==
    <<"{">> \o JsonKey(K_type) \o JsonString(kind.type) \o <<"}">>

\* derive(Serialize) for TagKind and WineTagKind, both #[serde(tag = "type")]
Ser_TagKind(kind) ==
    <<"{">> \o JsonKey(K_type) \o JsonString(kind.type)
    \o (IF kind.type = N_Wine
        THEN <<",">> \o JsonKey(K_kind) \o <<"{">> \o JsonKey(K_type) \o JsonString(kind.kind) \o <<"}">>
        ELSE <<>>)
    \o <<"}">>

\* derive(Serialize) for ManagedVersion, #[serde(tag = "type")]
Ser_ManagedVersion(v) ==
    <<"{">> \o JsonKey(K_type) \o JsonString(N_ManagedVersion) \o <<",">>
    \o JsonKey(K_tag) \o Ser_Tag(v.tag) \o <<",">>
    \o JsonKey(K_kind) \o Ser_TagKind(v.kind) \o <<",">>
    \o JsonKey(K_directory_name) \o JsonString(v.directory_name)
    \o <<"}">>

\* serde_json::to_string(&ManagedVersions)
to_string(versions) ==
    <<"{">> \o JsonKey(K_versions) \o <<"[">>
    \o join([i \in 1..Len(versions) |-> Ser_ManagedVersion(versions[i])], <<",">>)
    \o <<"]", "}">>

Punct(ch) == [k |-> "p", v |-> <<ch>>]
Str(s) == [k |-> "s", v |-> s]
Null == [k |-> "null", v |-> <<>>]
Bad == [k |-> "bad", v |-> <<>>]
AnyStr == [k |-> "any", v |-> <<>>]
OptStr == [k |-> "opt", v |-> <<>>]

\* The number of backslashes that stand immediately before position i.
BackslashRun(text, i) ==
    Max({n \in 0..(i - 1) : \A k \in 1..n : text[i - k] = Backslash})

\* The positions of the quotes that open or close a string.
StringQuotes(text) ==
    {i \in 1..Len(text) : text[i] = Quote /\ BackslashRun(text, i) % 2 = 0}

\* Position i lies outside every string (an opening quote does, a closing one does not).
Outside(quotes, i) == Cardinality({q \in quotes : q < i}) % 2 = 0

JsonPunctuation == {"{", "}", "[", "]", ":", ","}

\* Position i lies outside the strings and within a null literal.
InNull(text, quotes, i) ==
    \E j \in {i - 3, i - 2, i - 1, i} :
        j >= 1 /\ StartsAt(text, JSON_NULL, j) /\ Outside(quotes, j)

\* The token that starts at position i.
TokenAt(text, quotes, i) ==
    IF text[i] \in JsonPunctuation THEN Punct(text[i])
    ELSE IF i \in quotes
    THEN Str(unescape(SubSeq(text, i + 1, Min({q \in quotes : q > i}) - 1)))
    ELSE Null

\* The tokens that start between lo and hi, in the order of the text.
RECURSIVE TokensBetween(_, _, _, _)
TokensBetween(text, quotes, lo, hi) ==
    IF lo > hi THEN <<>>
    ELSE IF lo = hi
    THEN (IF /\ Outside(quotes, lo)
             /\ \/ text[lo] \in JsonPunctuation
                \/ lo \in quotes
                \/ StartsAt(text, JSON_NULL, lo)
          THEN <<TokenAt(text, quotes, lo)>> ELSE <<>>)
    ELSE TokensBetween(text, quotes, lo, (lo + hi) \div 2)
         \o TokensBetween(text, quotes, (lo + hi) \div 2 + 1, hi)

\* The JSON text as tokens: punctuation, strings (unescaped) and null; one Bad
\* token where a string is left open or another character stands between tokens.
Tokens(text) ==
    LET quotes == StringQuotes(text)
    IN IF \/ Cardinality(quotes) % 2 # 0
          \/ \E i \in 1..Len(text) :
                /\ Outside(quotes, i)
                /\ text[i] \notin JsonPunctuation
                /\ i \notin quotes
                /\ ~InNull(text, quotes, i)
       THEN <<Bad>>
       ELSE TokensBetween(text, quotes, 1, Len(text))

\* The tokens from position p on are those of the pattern; AnyStr stands for a
\* string, OptStr for a string or null.
Matches(toks, p, pattern) ==
    /\ p + Len(pattern) - 1 <= Len(toks)
    /\ \A i \in 1..Len(pattern) :
          LET t == toks[p + i - 1]
              q == pattern[i]
          IN IF q.k = "any" THEN t.k = "s"
             ELSE IF q.k = "opt" THEN t.k \in {"s", "null"}
             ELSE t = q

\* The tokens of a ManagedVersion up to the type of its kind (23 tokens).
VersionHead ==
    << Punct("{"), Str(K_type), Punct(":"), Str(N_ManagedVersion), Punct(","),
       Str(K_tag), Punct(":"), Punct("{"), Str(K_value), Punct(":"), AnyStr, Punct(","),
       Str(K_semver), Punct(":"), OptStr, Punct("}"), Punct(","),
       Str(K_kind), Punct(":"), Punct("{"), Str(K_type), Punct(":"), AnyStr >>

VersionTail ==
    << Punct("}"), Punct(","), Str(K_directory_name), Punct(":"), AnyStr, Punct("}") >>

WineKindPart ==
    << Punct(","), Str(K_kind), Punct(":"), Punct("{"), Str(K_type), Punct(":"), AnyStr, Punct("}") >>

\* derive(Deserialize) for ManagedVersion, Tag, TagKind and WineTagKind on the
\* tokens from p on: [ok, version, next].
De_ManagedVersion(toks, p) ==
    LET fail == [ok |-> FALSE, version |-> <<>>, next |-> p]
        tag == [value |-> toks[p + 10].v,
                semver |-> IF toks[p + 14].k = "null" THEN None ELSE Some(toks[p + 14].v)]
    IN IF ~Matches(toks, p, VersionHead) THEN fail
       ELSE IF toks[p + 22].v = N_Proton /\ Matches(toks, p + 23, VersionTail)
       THEN [ok |-> TRUE,
             version |-> [tag |-> tag, kind |-> KindProton, directory_name |-> toks[p + 27].v],
             next |-> p + 29]
       ELSE IF /\ toks[p + 22].v = N_Wine
               /\ Matches(toks, p + 23, WineKindPart \o VersionTail)
               /\ toks[p + 29].v \in {N_WineGe, N_LolWineGe}
       THEN [ok |-> TRUE,
             version |-> [tag |-> tag, kind |-> KindWine(toks[p + 29].v),
                          directory_name |-> toks[p + 35].v],
             next |-> p + 37]
       ELSE fail

\* The elements of the versions array from p on, up to its "]": [ok, versions, next].
RECURSIVE De_Seq(_, _, _)
De_Seq(toks, p, acc) ==
    IF Matches(toks, p, <<Punct("]")>>) /\ acc = <<>> THEN [ok |-> TRUE, versions |-> acc, next |-> p + 1]
    ELSE LET e == De_ManagedVersion(toks, p)
         IN IF ~e.ok THEN [ok |-> FALSE, versions |-> <<>>, next |-> p]
            ELSE IF Matches(toks, e.next, <<Punct(",")>>)
            THEN De_Seq(toks, e.next + 1, Append(acc, e.version))
            ELSE IF Matches(toks, e.next, <<Punct("]")>>)
            THEN [ok |-> TRUE, versions |-> Append(acc, e.version), next |-> e.next + 1]
            ELSE [ok |-> FALSE, versions |-> <<>>, next |-> p]

\* serde_json::from_str::<ManagedVersions>
from_str(text) ==
    LET toks == Tokens(text)
        fail == [ok |-> FALSE, versions |-> <<>>]
    IN IF ~Matches(toks, 1, <<Punct("{"), Str(K_versions), Punct(":"), Punct("[")>>) THEN fail
       ELSE LET r == De_Seq(toks, 5, <<>>)
            IN IF r.ok /\ Matches(toks, r.next, <<Punct("}")>>) /\ Len(toks) = r.next
               THEN [ok |-> TRUE, versions |-> r.versions]
               ELSE fail

\* ManagedVersions::from_file: no file is the empty collection.
from_file(file) ==
    IF file = None THEN [ok |-> TRUE, versions |-> <<>>] ELSE from_str(file[1])

\* The versions a written collection is put together from: both Wine
\* sub-variants, a tag without semver, directory names with a quote, a
\* backslash and a line feed, and an empty one.
StoredVersions ==
    { [tag |-> [value |-> TagA, semver |-> from_git_tag(TagA).semver], kind |-> KindProton,
       directory_name |-> <<"G", "E", Quote, "6">>],
      [tag |-> [value |-> TagB, semver |-> from_git_tag(TagB).semver], kind |-> KindProton,
       directory_name |-> <<>>],
      [tag |-> [value |-> TagWine71, semver |-> from_git_tag(TagWine71).semver],
       kind |-> KindWine(N_WineGe), directory_name |-> <<"a", Backslash>>],
      [tag |-> [value |-> TagLol71, semver |-> from_git_tag(TagLol71).semver],
       kind |-> KindWine(N_LolWineGe), directory_name |-> <<"l", "\n", "n">>],
      [tag |-> [value |-> <<"x", Backslash, Quote>>, semver |-> None],
       kind |-> KindWine(N_WineGe), directory_name |-> <<"n", "u", "l", "l">>],
      [tag |-> [value |-> <<"{", ",", "}">>, semver |-> Some(<<"]">>)],
       kind |-> KindProton, directory_name |-> <<":">>] }

Collections == UNION {[1..n -> StoredVersions] : n \in 0..MaxStored}

\* ManagedVersions::write_to_file
StoreWrite ==
    /\ stpc = "idle"
    /\ storeFile' = Some(to_string(storeIn))
    /\ stpc' = "written"
    /\ UNCHANGED <<storeIn, storeOut, copyVars, collVars, pagVars,
                   tagVars, sumVars, dlVars, regVars, cfgVars, scanVars>>

\* ManagedVersions::from_file
StoreRead ==
    /\ stpc \in {"idle", "written"}
    /\ storeOut' = from_file(storeFile)
    /\ stpc' = "read"
    /\ UNCHANGED <<storeIn, storeFile, copyVars, collVars, pagVars,
                   tagVars, sumVars, dlVars, regVars, cfgVars, scanVars>>

StoreInit ==
    /\ storeIn \in Collections
    /\ storeFile = None
    /\ storeOut = [ok |-> TRUE, versions |-> <<>>]
    /\ stpc = "idle"

StoreNext ==
    \/ StoreWrite
    \/ StoreRead

\* C23: a collection written to the registry file and read back from it is the
\* collection that was written.
C23_RoundTrip ==
    (stpc = "read" /\ storeFile # None) => storeOut = [ok |-> TRUE, versions |-> storeIn]

\* A collection of two versions, one with a quote in its directory name and one
\* of the LoL sub-variant, was written and read back.
C23_Witness ==
    /\ stpc = "read"
    /\ storeFile # None
    /\ Len(storeIn) = 2
    /\ storeOut.ok
    /\ \E i \in 1..2 : Contains(storeIn[i].directory_name, <<Quote>>)
    /\ \E i \in 1..2 : storeIn[i].kind = KindWine(N_LolWineGe)

----------------------------------------------------------------------------
(* The ManagedVersions collection under add and remove (src/src/data.rs),  *)
(* called as the handlers call them: add for a version that is not held,   *)
(* remove for one that is.                                                 *)

\* Bound: the number of adds and removes applied to the collection.
MaxOps == 5

\* ManagedVersions::add of a version the collection does not hold
CollAdd ==
    /\ nops < MaxOps
    /\ \E tag \in Tags, kind \in CmdKinds :
         /\ find_version(held, tag, kind) = None
         /\ LET version == ManagedVersion_from(Version(None, tag, kind))
            IN /\ held' = ManagedVersions_add(held, version)
               /\ inserted' = Append(inserted, version)
    /\ nops' = nops + 1
    /\ UNCHANGED <<copyVars, storeVars, pagVars, tagVars, sumVars, dlVars, regVars, cfgVars, scanVars>>

\* ManagedVersions::remove of a version the collection holds
CollRemove ==
    /\ nops < MaxOps
    /\ \E tag \in Tags, kind \in CmdKinds :
         /\ find_version(held, tag, kind) # None
         /\ LET Others(v) == ~VersionedEq(v, tag, kind)
            IN /\ held' = ManagedVersions_remove(held, tag, kind).versions
               /\ inserted' = SelectSeq(inserted, Others)
    /\ nops' = nops + 1
    /\ UNCHANGED <<copyVars, storeVars, pagVars, tagVars, sumVars, dlVars, regVars, cfgVars, scanVars>>

CollInit ==
    /\ held = <<>>
    /\ inserted = <<>>
    /\ nops = 0

CollNext ==
    \/ CollAdd
    \/ CollRemove

\* C24: the versions the collection holds stand in the order in which they
\* were added.
C24_InsertionOrder == held = inserted

----------------------------------------------------------------------------
(* Two calls of find_latest_wine_ge_release_tag on one GeDownloader         *)
(* (gehelper-lib/src/download/mod.rs), their loop iterations interleaved.   *)

\* Bound: the number of concurrent calls.
MaxCalls == 2

Calls == 1..MaxCalls

\* The listings whose scan ends before the page counter reaches U8_MAX.
ShortListings == {l \in Listings : l.filler <= MaxShortFiller}

\* A page counter that every call reads from the first call.
local_page_shared(pages, c) == pages[1]

\* `let mut page = 1` is a local of the call: the call reads its own counter.
local_page(pages, c) == pages[c]

\* A call starts: let mut page = 1
PagStart(c) ==
    /\ pagPc[c] = "idle"
    /\ \E kind \in WineTagKinds : pagKind' = [pagKind EXCEPT ![c] = kind]
    /\ pagPage' = [pagPage EXCEPT ![c] = 1]
    /\ pagPc' = [pagPc EXCEPT ![c] = "loop"]
    /\ UNCHANGED <<pagListing, pagReqs, copyVars, storeVars, collVars,
                   tagVars, sumVars, dlVars, regVars, cfgVars, scanVars>>

\* One iteration of a call's loop: fetch its page, return or advance.
PagStep(c) ==
    /\ pagPc[c] = "loop"
    /\ LET p == local_page(pagPage, c)
           r == scan_page(PageOf(pagListing, pagKind[c], p), pagKind[c])
       IN /\ pagReqs' = [pagReqs EXCEPT ![c] = Append(@, p)]
          /\ IF r.status \in {"empty", "found"}
             THEN pagPc' = [pagPc EXCEPT ![c] = "done"] /\ pagPage' = pagPage
             ELSE IF r.status = "panic"
             THEN pagPc' = [pagPc EXCEPT ![c] = "panic"] /\ pagPage' = pagPage
             ELSE \E n \in next_page(p) :
                    IF n.panics
                    THEN pagPc' = [pagPc EXCEPT ![c] = "panic"] /\ pagPage' = pagPage
                    ELSE pagPc' = pagPc /\ pagPage' = [pagPage EXCEPT ![c] = n.page]
    /\ UNCHANGED <<pagListing, pagKind, copyVars, storeVars, collVars,
                   tagVars, sumVars, dlVars, regVars, cfgVars, scanVars>>

PagInit ==
    /\ pagListing \in ShortListings
    /\ pagKind = [c \in Calls |-> "WineGe"]
    /\ pagPage = [c \in Calls |-> 1]
    /\ pagPc = [c \in Calls |-> "idle"]
    /\ pagReqs = [c \in Calls |-> <<>>]

PagNext ==
    \/ \E c \in Calls : PagStart(c)
    \/ \E c \in Calls : PagStep(c)

\* C25: each of two concurrent lookups requests the pages 1, 2, 3, ... in
\* order, wherever the other lookup stands.
C25_PagePrivate ==
    \A c \in Calls : \A i \in 1..Len(pagReqs[c]) : pagReqs[c][i] = i

\* One lookup has requested two pages while the other, started and not
\* finished, has requested one.
C25_Witness ==
    /\ pagPc[1] = "loop"
    /\ pagPc[2] = "loop"
    /\ pagReqs[1] = <<1, 2>>
    /\ pagReqs[2] = <<1>>

----------------------------------------------------------------------------
(* A config copy in memory (gehelper-lib/src/config.rs): create_copy reads *)
(* the file once, the setter is then applied to the copy any number of     *)
(* times.                                                                  *)

\* Bound: the number of sets applied to one copy.
MaxSets == 3

\* A Steam config whose value line holds one quote character.
SteamFileOneQuote ==
    <<"C", "o", "m", "p", "a", "t", "T", "o", "o", "l", "M", "a", "p", "p", "i", "n", "g", "\n", "\"", "0", "\"", "\n", "{", "\n", "\t", "n", "a", "m", "e", "\t", "o", "l", "d", "\"", "\n", "}", "\n">>
\* A Lutris config with two lines that contain "version".
LutrisFileTwo ==
    <<"w", "i", "n", "e", ":", "\n", " ", " ", "v", "e", "r", "s", "i", "o", "n", ":", " ", "o", "l", "d", "\n", " ", " ", "d", "x", "v", "k", "_", "v", "e", "r", "s", "i", "o", "n", ":", " ", "v", "1", "\n">>

HostFiles(kind) ==
    {None} \cup {Some(f) : f \in IF kind = "Proton" THEN SteamFiles \cup {SteamFileOneQuote}
                                 ELSE LutrisFiles \cup {LutrisFileTwo}}

\* Directory names shorter than, as long as and longer than the one on file.
SetNames == { <<"n">>, NewName, <<"n", "e", "w", "e", "r">> }

\* SteamConfig::create_copy / LutrisConfig::create_copy
CopyRead ==
    /\ hpc = "idle"
    /\ LET config == create_copy(hostKind, hostFile)
       IN /\ hostRead' = config
          /\ hostCopy' = config
          /\ hpc' = IF config.status = "ok" THEN "read"
                    ELSE IF config.status = "panic" THEN "panic" ELSE "failed"
    /\ UNCHANGED <<hostKind, hostFile, hostLast, nsets, storeVars, collVars, pagVars,
                   tagVars, sumVars, dlVars, regVars, cfgVars, scanVars>>

\* SteamConfig::set_proton_version / LutrisConfig::set_wine_version on the copy
CopySet ==
    /\ hpc = "read"
    /\ nsets < MaxSets
    /\ \E name \in SetNames :
         LET config == set_version(hostCopy, name)
         IN /\ hostCopy' = config
            /\ hostLast' = Some(name)
            /\ hpc' = IF config.status = "panic" THEN "panic" ELSE "read"
    /\ nsets' = nsets + 1
    /\ UNCHANGED <<hostKind, hostFile, hostRead, storeVars, collVars, pagVars,
                   tagVars, sumVars, dlVars, regVars, cfgVars, scanVars>>

CopyInit ==
    /\ hostKind \in CmdKinds
    /\ hostFile \in HostFiles(hostKind)
    /\ hostRead = NoConfig("none")
    /\ hostCopy = NoConfig("none")
    /\ hostLast = None
    /\ hpc = "idle"
    /\ nsets = 0

CopyNext ==
    \/ CopyRead
    \/ CopySet

----------------------------------------------------------------------------
(* Properties of the config copy.                                          *)

\* The numbers (from 1) of the file's lines that contain the attribute keyword.
VersionLines(file) ==
    {i \in 1..Len(lines(file)) : Contains(lines(file)[i], WINE_VERSION_ATTRIBUTE)}

\* C21: of several lines of a Lutris config that contain "version", the first
\* is the one read as the active version and the one a set patches.
C21_FirstVersionLine ==
    (hostKind = "Wine" /\ hpc = "read" /\ Cardinality(VersionLines(hostFile[1])) > 1) =>
        LET first == Min(VersionLines(hostFile[1]))
        IN /\ hostRead.idx + 1 = first
           /\ hostRead.line = lines(hostFile[1])[first]
           /\ \A i \in 1..Len(hostCopy.lines) :
                 i # first => hostCopy.lines[i] = hostRead.lines[i]

\* C28: after two or more sets on one copy the copy reports the name set
\* last, and its attribute line is the line as read with the value span, and
\* nothing else, replaced by that name.
C28_RepeatedSet ==
    (nsets >= 2) =>
        /\ hpc = "read"
        /\ hostCopy.line = SubSeq(hostRead.line, 1, hostRead.start) \o hostLast[1]
                           \o SubSeq(hostRead.line, hostRead.end + 1, Len(hostRead.line))
        /\ hostCopy.lines[hostCopy.idx + 1] = hostCopy.line
        /\ hostCopy.end <= Len(hostCopy.line)
        /\ version_of(hostCopy) = hostLast[1]

\* C30: whatever the file holds, the read returns a config, an
\* attribute-not-found error or an I/O error.
C30_ReadNeverAborts ==
    (hpc # "idle") => hostRead.status \in {"ok", "io", "noattr"}

----------------------------------------------------------------------------
(* Tags with sub-variant markers.                                          *)

\* Bound: the number of pieces a marked raw tag is put together from.
MaxMarkPieces == 4

MF == <<"M", "F">>

MarkPieces == { <<"7">>, <<".">>, RELEASE_CANDIDATE_MARKER, LOL, MF }

MarkedTags == {Concat(ps) : ps \in UNION {[1..n -> MarkPieces] : n \in 0..MaxMarkPieces}}

\* Tag::new and compare_semver on the marked tags.
MarkInit ==
    /\ tagRaw \in MarkedTags
    /\ tagObj = NoTag
    /\ tagOther = NoTag
    /\ tord = 0
    /\ tpc = "idle"

EndsWith(s, suffix) ==
    /\ Len(suffix) <= Len(s)
    /\ SubSeq(s, Len(s) - Len(suffix) + 1, Len(s)) = suffix

\* The suffix the markers of a tag without "rc" call for.
MarkerSuffix(git_tag) ==
    (IF Contains(git_tag, LOL) THEN <<"-">> \o LOL ELSE <<>>)
    \o (IF Contains(git_tag, MF) THEN <<"-">> \o MF ELSE <<>>)

\* C26: the semver of a tag without "rc" is its dotted number followed by
\* "-LoL" when the tag contains "LoL" and by "-MF" when it contains "MF", in
\* that order, and by nothing else.
C26_MarkerSuffix ==
    (tpc \in {"new", "cmp"} /\ ~Contains(tagRaw, RELEASE_CANDIDATE_MARKER)) =>
        /\ tagObj.semver # None
        /\ EndsWith(tagObj.semver[1], MarkerSuffix(tagRaw))
        /\ LET s == tagObj.semver[1]
               number == SubSeq(s, 1, Len(s) - Len(MarkerSuffix(tagRaw)))
           IN \A i \in 1..Len(number) : IsDigit(number[i]) \/ number[i] = "."

\* A tag that names MF before LoL was constructed.
C26_Witness ==
    /\ tpc = "new"
    /\ tagRaw = <<"7">> \o MF \o LOL
    /\ tagObj.semver = Some(<<"7", ".", "0", ".", "0", "-", "L", "o", "L", "-", "M", "F">>)

----------------------------------------------------------------------------
(* Properties of the registry file and of remove.                          *)

\* C22: a save leaves the registry file holding either the whole previous
\* registry or the whole new one, whatever happens to the write.
C22_SaveAtomic ==
    [][pc = "save" => persisted' \in {persisted, [ok |-> TRUE, versions |-> mem]}]_vars

\* The directory of every version of the collection is in its tool directory.
DirectoriesPresent(versions, tdir) ==
    \A i \in 1..Len(versions) :
        <<application_name(versions[i].kind), versions[i].directory_name>> \in tdir

\* C27: between commands every version the registry file records has its
\* directory in the tool directory.  (A forget only drops registry entries and
\* deletes no directory.)
C27_PersistedHasDirectory ==
    pc = "idle" => DirectoriesPresent(persisted.versions, toolDir)

\* A remove of a managed version whose application has no config file.
RemoveWithoutConfig(c) ==
    /\ c.name = "remove"
    /\ find_version(persisted.versions, c.tag[1], c.kind) # None
    /\ active[application_name(c.kind)] = None

\* C29: a remove of a managed version whose application's config file does
\* not exist succeeds and takes the version out of the registry and off the disk.
C29_RemoveWithoutConfigCompletes ==
    [][(pc = "idle" /\ RemoveWithoutConfig(cmd')) =>
          LET found == find_version(persisted.versions, cmd'.tag[1], cmd'.kind)[1]
          IN /\ res' = "ok"
             /\ find_version(mem', cmd'.tag[1], cmd'.kind) = None
             /\ cmd'.forget \/
                   <<application_name(found.kind), found.directory_name>> \notin toolDir']_vars

----------------------------------------------------------------------------
(* Specifications.                                                         *)

CfgIdle ==
    /\ ckind = "Proton"
    /\ cfgFile = None
    /\ bakFile = None
    /\ cpc = "idle"
    /\ ccmd = <<>>
    /\ cpre = None
    /\ cgood = {}
    /\ cres = "none"
    /\ napply = 0

ScanIdle ==
    /\ listing = [pages |-> <<>>, filler |-> 0, zero |-> "empty"]
    /\ wkind = "WineGe"
    /\ page = 1
    /\ spc = "idle"
    /\ sres = NoResult

TagIdle ==
    /\ tagRaw = <<>>
    /\ tagObj = NoTag
    /\ tagOther = NoTag
    /\ tord = 0
    /\ tpc = "idle"

SumIdle ==
    /\ sumTar = <<>>
    /\ sumText = <<>>
    /\ sumRes = "none"

DlIdle ==
    /\ request = [skip_checksum |-> FALSE]
    /\ net = [release |-> None, checksum |-> "ok", tar |-> "ok"]
    /\ dpc = "idle"
    /\ dres = NoDownload

CopyIdle ==
    /\ hostKind = "Proton"
    /\ hostFile = None
    /\ hostRead = NoConfig("none")
    /\ hostCopy = NoConfig("none")
    /\ hostLast = None
    /\ hpc = "idle"
    /\ nsets = 0

StoreIdle ==
    /\ storeIn = <<>>
    /\ storeFile = None
    /\ storeOut = [ok |-> TRUE, versions |-> <<>>]
    /\ stpc = "idle"

CollIdle ==
    /\ held = <<>>
    /\ inserted = <<>>
    /\ nops = 0

PagIdle ==
    /\ pagListing = [pages |-> <<>>, filler |-> 0, zero |-> "empty"]
    /\ pagKind = [c \in Calls |-> "WineGe"]
    /\ pagPage = [c \in Calls |-> 1]
    /\ pagPc = [c \in Calls |-> "idle"]
    /\ pagReqs = [c \in Calls |-> <<>>]

ExtIdle == CopyIdle /\ StoreIdle /\ CollIdle /\ PagIdle

LibIdle == TagIdle /\ SumIdle /\ DlIdle /\ ExtIdle

\* The registry and its commands.
InitReg == RegInit /\ CfgIdle /\ ScanIdle /\ LibIdle
SpecReg == InitReg /\ [][RegNext]_vars

\* The host config patch.
InitCfg == RegIdle /\ CfgInit /\ ScanIdle /\ LibIdle
SpecCfg == InitCfg /\ [][CfgNext]_vars

\* The paginated tag scan.
InitScan == RegIdle /\ CfgIdle /\ ScanInit /\ LibIdle
SpecScan == InitScan /\ [][ScanNext]_vars

\* The scan under the scheduling of a running call: a started call keeps stepping.
SpecScanFair == SpecScan /\ WF_vars(ScanStep)

\* Tag construction and comparison.
InitTag == RegIdle /\ CfgIdle /\ ScanIdle /\ TagInit /\ SumIdle /\ DlIdle /\ ExtIdle
SpecTag == InitTag /\ [][TagNext]_vars

\* Two concurrent tag scans.
InitPag == RegIdle /\ CfgIdle /\ ScanIdle /\ TagIdle /\ SumIdle /\ DlIdle /\ CopyIdle /\ StoreIdle /\ CollIdle /\ PagInit
SpecPag == InitPag /\ [][PagNext]_vars

\* The collection under add and remove.
InitColl == RegIdle /\ CfgIdle /\ ScanIdle /\ TagIdle /\ SumIdle /\ DlIdle /\ CopyIdle /\ StoreIdle /\ CollInit /\ PagIdle
SpecColl == InitColl /\ [][CollNext]_vars

\* The registry file as a document.
InitStore == RegIdle /\ CfgIdle /\ ScanIdle /\ TagIdle /\ SumIdle /\ DlIdle /\ CopyIdle /\ StoreInit /\ CollIdle /\ PagIdle
SpecStore == InitStore /\ [][StoreNext]_vars

\* A config copy in memory.
InitCopy == RegIdle /\ CfgIdle /\ ScanIdle /\ TagIdle /\ SumIdle /\ DlIdle /\ CopyInit /\ StoreIdle /\ CollIdle /\ PagIdle
SpecCopy == InitCopy /\ [][CopyNext]_vars

\* Tag construction on tags with sub-variant markers.
InitMark == RegIdle /\ CfgIdle /\ ScanIdle /\ MarkInit /\ SumIdle /\ DlIdle /\ ExtIdle
SpecMark == InitMark /\ [][TagNext]_vars

\* Checksum verification.
InitSum == RegIdle /\ CfgIdle /\ ScanIdle /\ TagIdle /\ SumInit /\ DlIdle /\ ExtIdle
SpecSum == InitSum /\ [][SumNext]_vars

\* The release download.
InitDl == RegIdle /\ CfgIdle /\ ScanIdle /\ TagIdle /\ SumIdle /\ DlInit /\ ExtIdle
SpecDl == InitDl /\ [][DlNext]_vars

====
